---- MODULE Spec2Model ----
(***************************************************************************)
(* The P2P transport of src/transport/p2p.cc: the MemcpyEvent dependency   *)
(* tracker, the copy-engine (CE) proxy progress routine with its batched   *)
(* drain, and the ref-counted staging buffer of the send-side proxy.       *)
(***************************************************************************)
EXTENDS Integers, Sequences, FiniteSets, TLC

\* ---------------------------------------------------------------- sizes
\* NCCL_STEPS, the ring depth S (p2pProxyInfo::events[NCCL_STEPS]).
NCCL_STEPS == 8
\* comm->nChannels; connection c carries channel c.
NumChannels == 2
\* comm->buffSizes[NCCL_PROTO_SIMPLE] / NCCL_STEPS, in bytes.
StepSize == 2
\* Largest nsteps of the sub-operation of a Simple op with one sub.
MaxSteps == 3
\* Largest nsteps of a sub-operation of a Simple op with several subs.
MaxStepsMulti == 2
\* Largest nsteps of the sub-operation of the op of the ring model.
MaxRingSteps == 10
\* Largest nsteps of a sub-operation of an op whose protocol is not Simple.
MaxStepsLL == 7
\* Largest args->sliceSteps.
MaxSlice == 2
\* Largest args->chunkSteps / args->sliceSteps.
MaxChunkMul == 2
\* Number of Simple ops the proxy host posts.
MaxOps == 1
\* Number of ops the proxy host posts, Simple or not.
MaxOpsAll == 2
\* Largest comm->buffSizes[NCCL_PROTO_SIMPLE] of the offsets model, in bytes.
MaxBuffSize == 20
\* Width of an int in the offsets model, in bits.
IntBits == 8
\* Number of send-side proxy connections of the Setup/Free model.
NumSharers == 3
\* Number of Setup calls the Setup/Free model makes.
MaxSetups == 4
\* Number of p2pMemcpyEvent nodes of the event-graph model.
NumNodes == 3
\* Largest trackers vector the event-graph model lets Track build.
MaxTrackers == 2
\* Number of p2pCanConnect calls the connectivity model makes.
MaxCalls == 3

Slots == 0 .. (NCCL_STEPS - 1)
Conns == 0 .. (NumChannels - 1)
EvIds == Conns \X Slots
Null == << >>
Fifos == {"fifoA", "fifoB"}
NullFifo == "nullptr"

ROUNDUP(x, y) == ((x + y - 1) \div y) * y

Min(a, b) == IF a < b THEN a ELSE b

\* ------------------------------------------------------- MemcpyEvent
\* An event graph E maps each event id to [flag, tracking, trackers];
\* pend is the set of events whose hardware event is recorded and not
\* yet complete (cudaEventQuery returns cudaErrorNotReady for them).

NewEvent == [flag |-> 1, tracking |-> Null, trackers |-> << >>]

RECURSIVE SetFlags(_, _, _)
SetFlags(E, xs, f) ==
    IF xs = << >> THEN E
    ELSE SetFlags([E EXCEPT ![Head(xs)].flag = f], Tail(xs), f)

EraseFirst(xs, x) ==
    IF \E k \in 1 .. Len(xs) : xs[k] = x
    THEN LET k == CHOOSE k \in 1 .. Len(xs) :
                      xs[k] = x /\ \A m \in 1 .. (k - 1) : xs[m] # x
         IN  SubSeq(xs, 1, k - 1) \o SubSeq(xs, k + 1, Len(xs))
    ELSE xs

\* p2pMemcpyEventRecord: the graph part (the cudaEventRecord itself is the
\* caller's append to the stream).
p2pMemcpyEventRecord(E, e) ==
    LET E1 == IF E[e].trackers # << >>
              THEN [SetFlags(E, E[e].trackers, E[e].flag) EXCEPT ![e].trackers = << >>]
              ELSE E
    IN  [E1 EXCEPT ![e].flag = 0, ![e].tracking = Null]

\* A tracker that marks the tracking event resolved at once, whatever the
\* state of the event it tracks.
p2pMemcpyEventTrack_Resolved(E, e, t) ==
    IF E[t].tracking # Null THEN [err |-> TRUE, E |-> E]
    ELSE IF E[e].trackers # << >> THEN [err |-> TRUE, E |-> E]
    ELSE [err |-> FALSE, E |-> [E EXCEPT ![e].tracking = t, ![e].flag = 1]]

\* A Track that links e to t before it checks anything.
p2pMemcpyEventTrack_WriteFirst(E, e, t) ==
    LET E1 == [E EXCEPT ![e].tracking = t, ![e].flag = E[t].flag]
    IN  IF E[t].tracking # Null THEN [err |-> TRUE, E |-> E1]
        ELSE IF E[e].trackers # << >> THEN [err |-> TRUE, E |-> E1]
        ELSE [err |-> FALSE,
              E |-> IF E1[t].flag = 0
                    THEN [E1 EXCEPT ![t].trackers = Append(@, e)] ELSE E1]

\* p2pMemcpyEventTrack(e, t): [err, E].
p2pMemcpyEventTrack(E, e, t) ==
    IF E[t].tracking # Null THEN [err |-> TRUE, E |-> E]
    ELSE IF E[e].trackers # << >> THEN [err |-> TRUE, E |-> E]
    ELSE LET E1 == [E EXCEPT ![e].tracking = t]
             E2 == [E1 EXCEPT ![e].flag = E1[t].flag]
             E3 == IF E2[t].flag = 0
                   THEN [E2 EXCEPT ![t].trackers = Append(@, e)]
                   ELSE E2
         IN  [err |-> FALSE, E |-> E3]

\* An Untrack that resolves the event and keeps its link to the target.
p2pMemcpyEventUntrack_KeepLink(E, e) ==
    IF E[e].tracking # Null
    THEN IF E[e].flag = 0
         THEN [[E EXCEPT ![E[e].tracking].trackers = EraseFirst(@, e)] EXCEPT ![e].flag = 1]
         ELSE E
    ELSE E

p2pMemcpyEventUntrack(E, e) ==
    IF E[e].tracking # Null
    THEN LET t  == E[e].tracking
             E1 == IF E[e].flag = 0
                   THEN [[E EXCEPT ![t].trackers = EraseFirst(@, e)] EXCEPT ![e].flag = 1]
                   ELSE E
         IN  [E1 EXCEPT ![e].tracking = Null]
    ELSE E

\* A Query that polls the event's own hardware event whatever it tracks.
p2pMemcpyEventQuery_PollSelf(E, pend, e) ==
    IF E[e].flag = 1 THEN [result |-> 1, E |-> E, polled |-> {}]
    ELSE IF e \notin pend
         THEN [result |-> 1,
               E |-> [SetFlags([E EXCEPT ![e].flag = 1], E[e].trackers, 1)
                        EXCEPT ![e].trackers = << >>],
               polled |-> {e}]
         ELSE [result |-> 0, E |-> E, polled |-> {e}]

\* p2pMemcpyEventQuery(e): [result, E, polled]; polled is the set of events
\* whose hardware event the call polled.
RECURSIVE p2pMemcpyEventQuery(_, _, _)
p2pMemcpyEventQuery(E, pend, e) ==
    IF E[e].flag = 1 THEN [result |-> 1, E |-> E, polled |-> {}]
    ELSE IF E[e].tracking # Null THEN p2pMemcpyEventQuery(E, pend, E[e].tracking)
    ELSE IF e \notin pend
         THEN [result |-> 1,
               E |-> [SetFlags([E EXCEPT ![e].flag = 1], E[e].trackers, 1)
                        EXCEPT ![e].trackers = << >>],
               polled |-> {e}]
         ELSE [result |-> 0, E |-> E, polled |-> {e}]

\* ------------------------------------------------------------- state
VARIABLES
    mergeMemcpy,  \* the MERGE_MEMCPY macro the file is built with
    args,         \* ncclProxyArgs: state, done, nsubs, sliceSteps, chunkSteps, protocol
    subs,         \* ncclProxySubArgs of sub s (connection s, channel s)
    step,         \* p2pProxyInfo::step
    ceTail,       \* ceRecvMem->tail, published by the producer
    sizesFifo,    \* ceRecvMem->sizesFifo
    shmTail,      \* shm->recvMem.tail, read by the consumer
    recvFifo,     \* p2pProxyInfo::recvFifo, the destination buffer
    events,       \* p2pProxyInfo::events of every connection
    stream,       \* work submitted to p2pProxyInfo::stream and not yet complete
    memcpyDstBase,\* comm->memcpyDstBase
    memcpyInfo,   \* comm->memcpyInfo[bidx][0 .. memcpyInfoCnt[bidx]-1]
    rc,           \* result of the last progress call
    opsPosted,    \* number of ops posted so far
    simplePosted, \* number of Simple ops posted so far
    psize,        \* history: sizes of the slices the producer published in this op
    landed,       \* history: slices of this op whose copy completed
    pass,         \* history: what the last progress call accumulated and issued
    calls,        \* history: parity of the number of progress calls made
    sendMem,      \* comm->p2pProxySendMem is non-null
    sendBuffCnt,  \* comm->p2pProxySendBuffCnt
    sharer,       \* per proxy connection: "none", "setup" or "freed"
    hist,         \* history of the Setup/Free model: allocations, releases, calls
    graph,        \* event-graph model: the p2pMemcpyEvent of every node
    made,         \* event-graph model: nodes p2pMemcpyEventCreate has run on
    hwPend,       \* event-graph model: nodes whose hardware event is not complete
    evLast,       \* event-graph model: the last operation and what it returned
    tunables,     \* NCCL_PARAM values and the CUDART_VERSION test of the build
    useMemcpy,    \* static int useMemcpy
    init,         \* static int init of initCeOperation
    legacyIPC,    \* static int legacyIPC of p2pCanConnect
    ccLast,       \* the last p2pCanConnect call: inputs, status, *ret, native calls
    ccHist,       \* history: p2pCanConnect calls made, probes started and completed
    link,         \* what Setup is given: topology read answer, pidHash equality, connIndex
    sendSide,     \* send connector: phase, p2pSendResources, descriptor, conn
    recvSide,     \* receive connector: phase, p2pRecvResources, descriptor, conn
    proxySide,    \* send proxy connection: what its transportResources hold
    connLast,     \* the last Setup, Connect or Free call: status and steps it ran
    recvMem,      \* comm->p2pProxyRecvMem is non-null
    recvBuffCnt,  \* comm->p2pProxyRecvBuffCnt
    recvBuffSize, \* comm->p2pProxyRecvBuffSize
    rsharer,      \* per receive proxy connection: what it holds and what it called
    rhist,        \* history of the receive buffer: allocations, cudaFree calls, last call
    comm,         \* offsets model: comm->buffSizes[NCCL_PROTO_SIMPLE] and comm->nChannels
    offsets,      \* offsets model: proxyInfo.offsets of the connection of (channelId, graphId)
    partial       \* history: connections whose producer published a tail inside a slice

ceVars == << mergeMemcpy, args, subs, step, ceTail, sizesFifo, shmTail, recvFifo,
             events, stream, memcpyDstBase, memcpyInfo, rc, opsPosted, simplePosted,
             psize, landed, pass, calls >>
refVars == << sendMem, sendBuffCnt, sharer, hist >>
evVars == << graph, made, hwPend, evLast >>
canVars == << tunables, useMemcpy, init, legacyIPC, ccLast, ccHist >>
connVars == << link, sendSide, recvSide, proxySide, connLast >>
rcvVars == << recvMem, recvBuffCnt, recvBuffSize, rsharer, rhist >>
offVars == << comm, offsets >>
stepVars == << partial >>
extVars == << evVars, canVars, connVars, rcvVars, offVars, stepVars >>
vars == << ceVars, refVars, extVars >>

\* The MERGE_MEMCPY macro of the build.
MERGE_MEMCPY == 1

SubIds(n) == 0 .. (n - 1)

\* Events whose hardware event is still pending on some stream.
Pending(st) == UNION { { st[c][k].ev : k \in 1 .. Len(st[c]) } : c \in Conns }

NoPass == [info |-> << << >>, << >> >>, copies |-> << >>, tracks |-> << >>]

\* ------------------------------------------- p2pSendProxyProgress
\* cudaMemcpyAsync followed by cudaEventRecord on connection c's stream: the
\* copy and the event complete together, in stream order.  Recording an
\* event again moves it to the new place in the stream.
Submit(st, c, item) ==
    LET old == [d \in Conns |-> [i \in 1 .. Len(st[d]) |->
                   IF st[d][i].ev = item.ev
                   THEN [st[d][i] EXCEPT !.ev = Null] ELSE st[d][i]]]
    IN  [old EXCEPT ![c] = Append(@, [ev |-> item.ev, covers |-> item.covers])]

\* The routine works on a record m of what it may change: subs, ev (the
\* events), shmTail, step, adone (args->done), dst (memcpyDstBase), info
\* (memcpyInfo), st (the streams), err, and the history fields copies, tracks.

\* An entry to Progress that numbers the steps of every op from zero.
EnterProgress_FromZero(m, a) ==
    [m EXCEPT !.subs = [s \in Conns |->
        IF s < a.nsubs
        THEN [m.subs[s] EXCEPT !.base = 0, !.posted = 0, !.transmitted = 0, !.done = 0]
        ELSE m.subs[s]]]

\* Lines 646-647: entry to Progress.
EnterProgress(m, a) ==
    [m EXCEPT !.subs = [s \in Conns |->
        IF s < a.nsubs
        THEN [m.subs[s] EXCEPT !.base = ROUNDUP(m.step[s], a.chunkSteps),
                               !.posted = 0, !.transmitted = 0, !.done = 0]
        ELSE m.subs[s]]]

\* Lines 660-664: a protocol other than Simple does not use cudaMemcpy.
SkipSub(m, s) ==
    [m EXCEPT !.step[s] = m.subs[s].base + m.subs[s].nsteps, !.adone = @ + 1]

\* A finish check that never counts the sub-operation.
FinishCheck_Never(m, s) == m

\* A finish check that counts the sub-operation on every call.
FinishCheck_Always(m, s) ==
    [m EXCEPT !.step[s] = m.subs[s].base + m.subs[s].nsteps, !.adone = @ + 1]

\* Lines 681-684 and 734-737.
FinishCheck(m, s) ==
    IF m.subs[s].done = m.subs[s].nsteps
    THEN [m EXCEPT !.step[s] = m.subs[s].base + m.subs[s].nsteps, !.adone = @ + 1]
    ELSE m

\* A done cursor that moves two slices for one resolved event.
AdvanceDone_TwoSlices(m, s, a) ==
    [m EXCEPT !.subs[s].done = @ + 2 * a.sliceSteps,
              !.shmTail[s] = m.subs[s].base + m.subs[s].done + 2 * a.sliceSteps]

\* Lines 673-680: the slice at the done cursor resolved.
AdvanceDone(m, s, a) ==
    [m EXCEPT !.subs[s].done = @ + a.sliceSteps,
              !.shmTail[s] = m.subs[s].base + m.subs[s].done + a.sliceSteps]

\* Lines 667-685: the batched build's completion loop.
RECURSIVE DoneLoop(_, _, _, _)
DoneLoop(m, s, a, cont) ==
    IF m.subs[s].done < m.subs[s].transmitted /\ cont
    THEN LET e == << s, (m.subs[s].base + m.subs[s].done) % NCCL_STEPS >>
             After(q) ==
                 DoneLoop(FinishCheck(IF q.result = 1
                                      THEN AdvanceDone([m EXCEPT !.ev = p2pMemcpyEventUntrack(q.E, e)], s, a)
                                      ELSE [m EXCEPT !.ev = q.E], s),
                          s, a, q.result = 1)
         IN  After(p2pMemcpyEventQuery(m.ev, Pending(m.st), e))
    ELSE m

\* Lines 698-709: the accumulation table of the destination buffer.
Bidx(dst, fifo) ==
    IF dst[1] = NullFifo \/ dst[1] = fifo THEN 1
    ELSE IF dst[2] = NullFifo \/ dst[2] = fifo THEN 2
    ELSE 0

\* Lines 710-714: defer the copy of the slice at the transmitted cursor.
Enqueue(m, s, a, buffSlot) ==
    LET Put(bidx) ==
            IF bidx = 0 THEN [m EXCEPT !.err = TRUE]
            ELSE [m EXCEPT !.dst[bidx] = recvFifo[s],
                           !.info[bidx] = Append(@, [proxyInfo |-> s, buffSlot |-> buffSlot,
                                                     channelId |-> s,
                                                     slice |-> (m.subs[s].transmitted \div a.sliceSteps) + 1])]
    IN  Put(Bidx(m.dst, recvFifo[s]))

\* Lines 716-718: the un-batched build copies the slice and records its event.
CopyNow(m, s, a, buffSlot) ==
    LET Put(item) == [m EXCEPT !.st = Submit(m.st, s, item), !.copies = Append(@, item)]
        Sized(size) ==
            Put([ev |-> << s, buffSlot >>, bytes |-> size, start |-> buffSlot * StepSize,
                 covers |-> IF size > 0
                            THEN {<< s, (m.subs[s].transmitted \div a.sliceSteps) + 1 >>}
                            ELSE {},
                 nfull |-> 0, term |-> size, termEv |-> Null])
    IN  Sized(sizesFifo[s][buffSlot])

\* A transmit test that accepts the step the tail points at.
TailPublished_Inclusive(m, s) == ceTail[s] >= m.subs[s].base + m.subs[s].transmitted

\* Line 696: the producer published the slice at the transmitted cursor.
TailPublished(m, s) == ceTail[s] > m.subs[s].base + m.subs[s].transmitted

\* Lines 687-723: the transmit loop.
RECURSIVE XmitLoop(_, _, _, _)
XmitLoop(m, s, a, cont) ==
    IF /\ m.subs[s].transmitted < m.subs[s].done + NCCL_STEPS
       /\ m.subs[s].transmitted < m.subs[s].nsteps
       /\ cont
       /\ ~m.err
    THEN LET buffSlot == (m.subs[s].base + m.subs[s].transmitted) % NCCL_STEPS
             Advance(m1) ==
                 XmitLoop(IF m1.err THEN m1
                          ELSE [m1 EXCEPT !.subs[s].transmitted = @ + a.sliceSteps],
                          s, a, TRUE)
         IN  IF TailPublished(m, s)
             THEN Advance(IF mergeMemcpy = 1 THEN Enqueue(m, s, a, buffSlot)
                          ELSE CopyNow(m, s, a, buffSlot))
             ELSE m
    ELSE m

\* A poll that moves the done cursor and does not notify the consumer.
PollOne_NoNotify(m, s, a) ==
    IF m.subs[s].done < m.subs[s].transmitted
    THEN LET buffSlot == (m.subs[s].base + m.subs[s].done) % NCCL_STEPS
             m1 == IF << s, buffSlot >> \notin Pending(m.st)
                   THEN [m EXCEPT !.subs[s].done = @ + a.sliceSteps] ELSE m
         IN  FinishCheck(m1, s)
    ELSE m

\* Lines 725-738: the un-batched build polls one event per call.
PollOne(m, s, a) ==
    IF m.subs[s].done < m.subs[s].transmitted
    THEN LET buffSlot == (m.subs[s].base + m.subs[s].done) % NCCL_STEPS
             m1 == IF << s, buffSlot >> \notin Pending(m.st)
                   THEN AdvanceDone(m, s, a) ELSE m
         IN  FinishCheck(m1, s)
    ELSE m

\* Lines 658-740: one sub-operation.
ScanSub(m, s, a) ==
    LET Poll(m1) == IF m1.err THEN m1 ELSE PollOne(m1, s, a)
    IN  IF a.protocol # "SIMPLE" THEN SkipSub(m, s)
        ELSE IF mergeMemcpy = 1
             THEN XmitLoop(DoneLoop(m, s, a, TRUE), s, a, TRUE)
             ELSE Poll(XmitLoop(m, s, a, TRUE))

\* Lines 657-740: the loop over the sub-operations.
RECURSIVE ScanSubs(_, _, _)
ScanSubs(m, s, a) ==
    IF s < a.nsubs /\ ~m.err THEN ScanSubs(ScanSub(m, s, a), s + 1, a) ELSE m

\* ---------------------------------------------------- batched drain
\* Cell k of the pass is (buffSlot, channel) = (k \div nChannels, k % nChannels).
NumCells == NCCL_STEPS * NumChannels
CellSlot(k) == k \div NumChannels
CellChan(k) == k % NumChannels

NoEntry == [proxyInfo |-> -1, buffSlot |-> -1, channelId |-> -1, slice |-> 0]

\* Lines 756-763: rsrcs[buffSlot][channelId] and the slice it came from; the
\* last entry of a cell wins.
CellEntry(info, k) ==
    LET hits == { i \in 1 .. Len(info) :
                    info[i].buffSlot = CellSlot(k) /\ info[i].channelId = CellChan(k) }
    IN  IF hits = {} THEN NoEntry
        ELSE info[CHOOSE i \in hits : \A j \in hits : j <= i]

\* Lines 751-761: sizes[buffSlot][channelId].
CellSize(info, k) ==
    LET SizeOf(en) == IF en = NoEntry THEN 0 ELSE sizesFifo[en.proxyInfo][en.buffSlot]
    IN  SizeOf(CellEntry(info, k))

\* Lines 431-432: offsets[i] of the connection of channel ch (graph 0).
Offset(i, ch) == StepSize * (i * NumChannels + ch)

\* The slices whose bytes lie inside [start, start + bytes).
Covered(info, start, bytes) ==
    LET Inside(en, size) ==
            /\ en # NoEntry
            /\ size > 0
            /\ Offset(en.buffSlot, en.channelId) >= start
            /\ Offset(en.buffSlot, en.channelId) + size <= start + bytes
        SliceOf(en) == << en.proxyInfo, en.slice >>
    IN  { SliceOf(CellEntry(info, k)) :
            k \in { c \in 0 .. (NumCells - 1) :
                      Inside(CellEntry(info, c), CellSize(info, c)) } }

\* Lines 773-777: a slice outside any run is copied alone.
CopyAlone(acc, info, k, size) ==
    LET Put(item) ==
            [acc EXCEPT !.st = Submit(acc.st, item.ev[1], item),
                        !.ev = p2pMemcpyEventRecord(acc.ev, item.ev),
                        !.copies = Append(@, item)]
        Of(en) ==
            Put([ev |-> << en.proxyInfo, CellSlot(k) >>, bytes |-> size,
                 start |-> Offset(CellSlot(k), en.channelId),
                 covers |-> Covered(info, Offset(CellSlot(k), en.channelId), size),
                 nfull |-> 0, term |-> size, termEv |-> Null])
    IN  Of(CellEntry(info, k))

\* Lines 806-813: the other slices of the run track the event of its first.
RECURSIVE TrackCells(_, _, _, _, _)
TrackCells(acc, info, head, k, last) ==
    IF k > last \/ acc.err THEN acc
    ELSE LET Tracked(e, r) ==
                 IF r.err THEN [acc EXCEPT !.err = TRUE]
                 ELSE TrackCells([acc EXCEPT !.ev = r.E, !.tracks = Append(@, << e, head >>)],
                                 info, head, k + 1, last)
             Of(e) == Tracked(e, p2pMemcpyEventTrack(acc.ev, e, head))
         IN  Of(<< CellEntry(info, k).proxyInfo, CellSlot(k) >>)

\* A run whose other slices do not track the event of its first.
FlushRun_NoTrack(acc, info, k, size) ==
    LET iStart == acc.cumStart \div NumChannels
        jStart == acc.cumStart % NumChannels
        Close(a2) == IF a2.err THEN a2 ELSE [a2 EXCEPT !.cumStart = -1, !.cumSize = 0]
        Put(item) ==
            [acc EXCEPT !.st = Submit(acc.st, item.ev[1], item),
                                   !.ev = p2pMemcpyEventRecord(acc.ev, item.ev),
                                   !.copies = Append(@, item)]
        Of(en, end) ==
            Put([ev |-> << en.proxyInfo, iStart >>, bytes |-> acc.cumSize + size,
                 start |-> Offset(iStart, en.channelId),
                 covers |-> Covered(info, Offset(iStart, en.channelId), acc.cumSize + size),
                 nfull |-> acc.cumSize \div StepSize, term |-> size,
                 termEv |-> IF size > 0 THEN << end.proxyInfo, CellSlot(k) >> ELSE Null])
    IN  Close(Of(CellEntry(info, iStart * NumChannels + jStart), CellEntry(info, k)))

\* A run whose copy leaves out the slice that ends it.
FlushRun_FullOnly(acc, info, k, size) ==
    LET iStart == acc.cumStart \div NumChannels
        jStart == acc.cumStart % NumChannels
        Close(a2) == IF a2.err THEN a2 ELSE [a2 EXCEPT !.cumStart = -1, !.cumSize = 0]
        Put(item) ==
            TrackCells([acc EXCEPT !.st = Submit(acc.st, item.ev[1], item),
                                   !.ev = p2pMemcpyEventRecord(acc.ev, item.ev),
                                   !.copies = Append(@, item)],
                       info, item.ev, acc.cumStart + 1, IF size > 0 THEN k ELSE k - 1)
        Of(en, end) ==
            Put([ev |-> << en.proxyInfo, iStart >>, bytes |-> acc.cumSize,
                 start |-> Offset(iStart, en.channelId),
                 covers |-> Covered(info, Offset(iStart, en.channelId), acc.cumSize),
                 nfull |-> acc.cumSize \div StepSize, term |-> size,
                 termEv |-> IF size > 0 THEN << end.proxyInfo, CellSlot(k) >> ELSE Null])
    IN  Close(Of(CellEntry(info, iStart * NumChannels + jStart), CellEntry(info, k)))

\* Lines 780-816: the run that started at cumStart ends at cell k.
FlushRun(acc, info, k, size) ==
    LET iStart == acc.cumStart \div NumChannels
        jStart == acc.cumStart % NumChannels
        Close(a2) == IF a2.err THEN a2 ELSE [a2 EXCEPT !.cumStart = -1, !.cumSize = 0]
        Put(item) ==
            TrackCells([acc EXCEPT !.st = Submit(acc.st, item.ev[1], item),
                                   !.ev = p2pMemcpyEventRecord(acc.ev, item.ev),
                                   !.copies = Append(@, item)],
                       info, item.ev, acc.cumStart + 1, IF size > 0 THEN k ELSE k - 1)
        Of(en, end) ==
            Put([ev |-> << en.proxyInfo, iStart >>, bytes |-> acc.cumSize + size,
                 start |-> Offset(iStart, en.channelId),
                 covers |-> Covered(info, Offset(iStart, en.channelId), acc.cumSize + size),
                 nfull |-> acc.cumSize \div StepSize, term |-> size,
                 termEv |-> IF size > 0 THEN << end.proxyInfo, CellSlot(k) >> ELSE Null])
    IN  Close(Of(CellEntry(info, iStart * NumChannels + jStart), CellEntry(info, k)))

\* A scan that does not end a run at the last cell of the table.
RECURSIVE DrainCells_OpenEnd(_, _, _)
DrainCells_OpenEnd(acc, info, k) ==
    IF k >= NumCells \/ acc.err THEN acc
    ELSE LET Cell(size) ==
                 IF size < StepSize
                 THEN IF acc.cumStart = -1
                      THEN IF size > 0 THEN CopyAlone(acc, info, k, size) ELSE acc
                      ELSE FlushRun(acc, info, k, size)
                 ELSE IF size = StepSize
                      THEN [acc EXCEPT !.cumStart = IF @ = -1 THEN k ELSE @,
                                       !.cumSize = @ + size]
                      ELSE [acc EXCEPT !.err = TRUE]
         IN  DrainCells_OpenEnd(Cell(CellSize(info, k)), info, k + 1)

\* Lines 767-827: the scan over the cells in (buffSlot, channel) order.
RECURSIVE DrainCells(_, _, _)
DrainCells(acc, info, k) ==
    IF k >= NumCells \/ acc.err THEN acc
    ELSE LET Cell(size) ==
                 IF size < StepSize \/ (size = StepSize /\ k = NumCells - 1)
                 THEN IF acc.cumStart = -1
                      THEN IF size > 0 THEN CopyAlone(acc, info, k, size) ELSE acc
                      ELSE FlushRun(acc, info, k, size)
                 ELSE IF size = StepSize
                      THEN [acc EXCEPT !.cumStart = IF @ = -1 THEN k ELSE @,
                                       !.cumSize = @ + size]
                      ELSE [acc EXCEPT !.err = TRUE]
         IN  DrainCells(Cell(CellSize(info, k)), info, k + 1)

\* Lines 747-829: the drain of one destination buffer's table.
DrainOne(m, bidx) ==
    LET Close(acc) ==
            [m EXCEPT !.ev = acc.ev, !.st = acc.st, !.copies = acc.copies,
                      !.tracks = acc.tracks, !.err = acc.err,
                      !.info[bidx] = IF acc.err THEN @ ELSE << >>]
    IN  IF Len(m.info[bidx]) = 0 THEN m
        ELSE Close(DrainCells([ev |-> m.ev, st |-> m.st, copies |-> m.copies,
                               tracks |-> m.tracks, err |-> FALSE,
                               cumStart |-> -1, cumSize |-> 0], m.info[bidx], 0))

\* Lines 745-831.
Drain(m) ==
    LET Second(m1) == IF m1.err THEN m1 ELSE DrainOne(m1, 2)
    IN  Second(DrainOne(m, 1))

\* Lines 640-833: one call of p2pSendProxyProgress; last is args->next == nullptr.
ProgressResult(last) ==
    LET active == args.state \in {"Ready", "Progress"}
        Finish(m2) ==
            [state |-> IF active
                       THEN IF ~m2.err /\ m2.adone = args.nsubs THEN "None" ELSE "Progress"
                       ELSE args.state,
             m     |-> IF ~m2.err /\ mergeMemcpy = 1 /\ last THEN Drain(m2) ELSE m2,
             info  |-> m2.info]
        Scan(m1) == Finish(IF active THEN ScanSubs(m1, 0, args) ELSE m1)
        Enter(m0) == Scan(IF args.state = "Ready" THEN EnterProgress(m0, args) ELSE m0)
    IN  Enter([subs |-> subs, ev |-> events, shmTail |-> shmTail, step |-> step,
               adone |-> args.done, dst |-> memcpyDstBase, info |-> memcpyInfo,
               st |-> stream, err |-> FALSE, copies |-> << >>, tracks |-> << >>])

\* The call's writes.
Progress(last) ==
    \E r \in { ProgressResult(last) } :
        /\ args' = [args EXCEPT !.state = r.state, !.done = r.m.adone]
        /\ subs' = r.m.subs
        /\ events' = r.m.ev
        /\ shmTail' = r.m.shmTail
        /\ step' = r.m.step
        /\ memcpyDstBase' = r.m.dst
        /\ memcpyInfo' = r.m.info
        /\ stream' = r.m.st
        /\ rc' = IF r.m.err THEN "ncclInternalError" ELSE "ncclSuccess"
        /\ pass' = [info |-> r.info, copies |-> r.m.copies, tracks |-> r.m.tracks]
        /\ calls' = 1 - calls

\* The proxy host calls the progress function of the op of its active list;
\* the op is the only entry, so args->next is null.  It stops at an error.
ProxyProgress ==
    /\ rc = "ncclSuccess"
    /\ args.state \in {"Ready", "Progress"}
    /\ Progress(TRUE)
    /\ UNCHANGED << mergeMemcpy, ceTail, sizesFifo, recvFifo, opsPosted, simplePosted,
                    psize, landed >>
    /\ UNCHANGED << refVars, extVars >>

\* The base the op's sub-operation on connection c has or will get.
BaseOf(c) ==
    IF args.state = "Ready" THEN ROUNDUP(step[c], args.chunkSteps) ELSE subs[c].base

Max(a, b) == IF a > b THEN a ELSE b

\* The producing GPU publishes the next slice of connection c: it writes the
\* slice's size, then the tail.  It waits for a free ring slot, and the
\* consumer frees the slots below the tail it was shown.  The data of an op
\* fills whole slices, then at most one partial slice; the rest are empty.
Publish(c, size) ==
    LET cur == Max(ceTail[c], BaseOf(c))
    IN  /\ rc = "ncclSuccess"
        /\ args.state \in {"Ready", "Progress"}
        /\ c < args.nsubs
        /\ args.protocol = "SIMPLE"
        /\ cur < BaseOf(c) + subs[c].nsteps
        /\ cur + args.sliceSteps <= Max(shmTail[c], BaseOf(c)) + NCCL_STEPS
        /\ (psize[c] # << >> /\ psize[c][Len(psize[c])] < StepSize) => size = 0
        /\ sizesFifo' = [sizesFifo EXCEPT ![c][cur % NCCL_STEPS] = size]
        /\ ceTail' = [ceTail EXCEPT ![c] = cur + args.sliceSteps]
        /\ psize' = [psize EXCEPT ![c] = Append(@, size)]
        /\ pass' = NoPass
        /\ UNCHANGED << mergeMemcpy, args, subs, step, shmTail, recvFifo, events, stream,
                        memcpyDstBase, memcpyInfo, rc, opsPosted, simplePosted, landed, calls >>
        /\ UNCHANGED << refVars, extVars >>

\* The copy engine completes the oldest work of connection c's stream.
HwComplete(c) ==
    /\ stream[c] # << >>
    /\ stream' = [stream EXCEPT ![c] = Tail(@)]
    /\ landed' = landed \cup Head(stream[c]).covers
    /\ pass' = NoPass
    /\ UNCHANGED << mergeMemcpy, args, subs, step, ceTail, sizesFifo, shmTail, recvFifo,
                    events, memcpyDstBase, memcpyInfo, rc, opsPosted, simplePosted, psize,
                    calls >>
    /\ UNCHANGED << refVars, extVars >>

\* The proxy host posts the next op: nsubs sub-operations, sub s on
\* connection s, with the host's args->done = 0 and state Ready.
PostOp(n, ss, cs, proto, ns) ==
    /\ rc = "ncclSuccess"
    /\ args.state = "None"
    /\ opsPosted < MaxOpsAll
    /\ args' = [state |-> "Ready", done |-> 0, nsubs |-> n, sliceSteps |-> ss,
                chunkSteps |-> cs, protocol |-> proto]
    /\ subs' = [s \in Conns |-> IF s < n THEN [subs[s] EXCEPT !.nsteps = ns[s]] ELSE subs[s]]
    /\ opsPosted' = opsPosted + 1
    /\ psize' = [c \in Conns |-> << >>]
    /\ landed' = {}
    /\ pass' = NoPass
    /\ UNCHANGED << mergeMemcpy, step, ceTail, sizesFifo, shmTail, recvFifo, events, stream,
                    memcpyDstBase, memcpyInfo, rc, calls >>
    /\ UNCHANGED << refVars, extVars >>

\* The chunkSteps an op may have: a multiple of its sliceSteps (base is
\* ROUNDUP(0, chunkSteps) = 0 whatever chunkSteps is while step is 0).
ChunkMuls == IF \A c \in Conns : step[c] = 0 THEN {1} ELSE 1 .. MaxChunkMul

PostSimple ==
    \E n \in 1 .. NumChannels, ss \in 1 .. MaxSlice, cm \in ChunkMuls :
        \E k \in 1 .. (IF n = 1 THEN MaxSteps ELSE MaxStepsMulti) :
            /\ simplePosted < MaxOps
            /\ simplePosted' = simplePosted + 1
            /\ PostOp(n, ss, ss * cm, "SIMPLE", [s \in Conns |-> k])

PostLL ==
    \E n \in 1 .. NumChannels :
        /\ simplePosted' = simplePosted
        /\ PostOp(n, 1, 1, "LL", [s \in Conns |-> MaxStepsLL])

PublishAny == \E c \in Conns, size \in 0 .. StepSize : Publish(c, size)

HwAny == \E c \in Conns : HwComplete(c)

\* The state after p2pSendProxyConnect created the events of every connection.
InitCE(modes) ==
    /\ mergeMemcpy \in modes
    /\ args = [state |-> "None", done |-> 0, nsubs |-> 0, sliceSteps |-> 1,
               chunkSteps |-> 1, protocol |-> "SIMPLE"]
    /\ subs = [s \in Conns |-> [base |-> 0, posted |-> 0, transmitted |-> 0,
                                done |-> 0, nsteps |-> 0]]
    /\ step = [c \in Conns |-> 0]
    /\ ceTail = [c \in Conns |-> 0]
    /\ sizesFifo = [c \in Conns |-> [i \in Slots |-> 0]]
    /\ shmTail = [c \in Conns |-> 0]
    /\ recvFifo \in [Conns -> Fifos]
    /\ recvFifo[0] = "fifoA"
    /\ events = [e \in EvIds |-> NewEvent]
    /\ stream = [c \in Conns |-> << >>]
    /\ memcpyDstBase = << NullFifo, NullFifo >>
    /\ memcpyInfo = << << >>, << >> >>
    /\ rc = "ncclSuccess"
    /\ opsPosted = 0
    /\ simplePosted = 0
    /\ psize = [c \in Conns |-> << >>]
    /\ landed = {}
    /\ pass = NoPass
    /\ calls = 0

InitRefIdle ==
    /\ sendMem = FALSE
    /\ sendBuffCnt = 0
    /\ sharer = [p \in 1 .. NumSharers |-> "none"]
    /\ hist = [allocs |-> 0, frees |-> 0, setups |-> 0]

\* The nodes of the event-graph model; Null stands for "no node".
Nodes == { << n >> : n \in 1 .. NumNodes }

\* A p2pMemcpyEvent before p2pMemcpyEventCreate ran on it: zeroed memory.
NoEvent == [flag |-> 0, tracking |-> Null, trackers |-> << >>]

\* evLast: the operation, its arguments e and t, the event e as it was before
\* the call, and what the call returned.
NoCall == [op |-> "none", e |-> Null, t |-> Null, was |-> NoEvent,
           err |-> FALSE, result |-> 0, polled |-> {}]

InitEv ==
    /\ graph = [n \in Nodes |-> NoEvent]
    /\ made = {}
    /\ hwPend = {}
    /\ evLast = NoCall

\* *ret as the caller passed it in, when the call did not write it.
Unwritten == 0 - 1

\* The defaults of lines 101 and 185, on CUDA 10.1 or later.
DefaultTunables == [P2pUseCudaMemcpy |-> 1, P2pReadEnable |-> 0, cudart10010 |-> TRUE]

NoCanConnect == [called |-> FALSE, in |-> << >>, status |-> "ncclSuccess",
                 ret |-> Unwritten, natives |-> << >>, cached |-> 0 - 1]

\* Lines 102, 148 and 843: the statics of the file before the first call.
InitStatics ==
    /\ useMemcpy = 0
    /\ init = 0
    /\ legacyIPC = 0 - 1
    /\ ccLast = NoCanConnect
    /\ ccHist = [calls |-> 0, probes |-> 0, completed |-> 0]

InitCan == tunables = DefaultTunables /\ InitStatics

\* A connector before Setup: nothing allocated, nothing wired.
NoConn == [head |-> "unset", tail |-> "unset", simple |-> "unset"]

NoInfo == [read |-> 0, shm |-> FALSE, p2pBuff |-> FALSE]

NoSide == [phase |-> "none", held |-> {}, devMem |-> FALSE, info |-> NoInfo, conn |-> NoConn]

\* connLast: the handler, its status, the steps it ran, the read flag it
\* wrote or was given, and the native teardown call that failed in it.
NoConnCall == [op |-> "none", status |-> "ncclSuccess", steps |-> << >>, read |-> 0,
               failed |-> "none"]

InitSides ==
    /\ sendSide = NoSide
    /\ recvSide = NoSide
    /\ proxySide = [phase |-> "none", held |-> {}]
    /\ connLast = NoConnCall

InitConnIdle == link = [topoRead |-> 0, samePid |-> TRUE, connIndex |-> 0] /\ InitSides

\* The receive buffer of a zeroed ncclComm, and no receive proxy connection
\* set up: transportResources is null, nothing was handed out.
NoRecvConn == [state |-> "none", res |-> FALSE]

NoRecvCall == [op |-> "none", p |-> 0, status |-> "ncclSuccess", size |-> 0]

InitRcvIdle ==
    /\ recvMem = FALSE
    /\ recvBuffCnt = 0
    /\ recvBuffSize = 0
    /\ rsharer = [p \in 1 .. NumSharers |-> NoRecvConn]
    /\ rhist = [allocs |-> 0, live |-> FALSE, frees |-> 0, stale |-> 0, setups |-> 0,
                last |-> NoRecvCall]

\* The (channelId, graphId) pairs of a communicator: graphs ring, tree and
\* coll (line 525).
GraphIds == 0 .. 2

ConnKeys == (0 .. (NumChannels - 1)) \X GraphIds

NoOffsets == [k \in ConnKeys |-> << >>]

\* The communicator of the other models: StepSize bytes a step, NumChannels
\* channels, no connection connected in the offsets model.
InitOffIdle ==
    /\ comm = [buffSize |-> StepSize * NCCL_STEPS, nChannels |-> NumChannels]
    /\ offsets = NoOffsets

InitRest == InitRcvIdle /\ InitOffIdle /\ partial = {}

InitExt == InitEv /\ InitCan /\ InitConnIdle /\ InitRest

Init == InitCE({MERGE_MEMCPY}) /\ InitRefIdle /\ InitExt

Next == PostSimple \/ PostLL \/ PublishAny \/ ProxyProgress \/ HwAny

Spec == Init /\ [][Next]_vars

\* -------------------------------------------------------- properties
\* The slices of the current op on connection c, by number: slice k starts
\* at step BaseOf(c) + (k - 1) * sliceSteps and carries psize[c][k] bytes.
SliceStep(c, k) == BaseOf(c) + (k - 1) * args.sliceSteps

PostRing ==
    \E ss \in 1 .. MaxSlice, k \in 1 .. MaxRingSteps :
        /\ simplePosted < MaxOps
        /\ simplePosted' = simplePosted + 1
        /\ PostOp(1, ss, ss, "SIMPLE", [s \in Conns |-> k])

NextRing == PostRing \/ PublishAny \/ ProxyProgress \/ HwAny

SpecRing == Init /\ [][NextRing]_vars

\* C2: while a Simple op is in Progress, every sub-operation whose nsteps is
\* a multiple of sliceSteps has 0 <= done <= transmitted <= nsteps and
\* transmitted <= done + NCCL_STEPS.
C2_CursorBounds ==
    \A s \in SubIds(args.nsubs) :
        (/\ args.state = "Progress"
         /\ args.protocol = "SIMPLE"
         /\ subs[s].nsteps % args.sliceSteps = 0)
        => /\ 0 <= subs[s].done
           /\ subs[s].done <= subs[s].transmitted
           /\ subs[s].transmitted <= subs[s].nsteps
           /\ subs[s].transmitted <= subs[s].done + NCCL_STEPS

\* C2 witness: the ring is full, the window binds: transmitted is a whole
\* ring ahead of done and the op has more steps to transmit.
C2_Witness ==
    /\ args.state = "Progress"
    /\ args.nsubs = 1
    /\ subs[0].nsteps % args.sliceSteps = 0
    /\ subs[0].transmitted = subs[0].done + NCCL_STEPS
    /\ subs[0].transmitted < subs[0].nsteps

\* The entries a progress call accumulated for connection c.
EntriesOf(info, c) ==
    Cardinality({ << b, i >> \in (1 .. 2) \X (1 .. NumCells) :
                    i <= Len(info[b]) /\ info[b][i].proxyInfo = c })

\* C3, one step of an op that is posted and not complete: transmitted of a
\* sub-operation moves only forward from its value at the call (0 when the
\* call enters Progress), one accumulated entry per slice, and only over
\* slices whose step is below the tail the producer published; a
\* sub-operation whose next slice is not published keeps its transmitted
\* cursor and gets no entry.
C3_Step ==
    \A s \in SubIds(args.nsubs) :
        args.state \in { "Ready", "Progress" } =>
        LET entering == args.state = "Ready" /\ args'.state # "Ready"
            t0 == IF entering THEN 0 ELSE subs[s].transmitted
            t1 == subs'[s].transmitted
            b  == subs'[s].base
        IN  /\ t1 >= t0
            /\ t1 > t0 => ceTail[s] > b + t1 - args.sliceSteps
            /\ EntriesOf(pass'.info, s) * args.sliceSteps = t1 - t0
            /\ ceTail[s] <= b + t0 => (t1 = t0 /\ EntriesOf(pass'.info, s) = 0)

\* C3: every step of every behaviour is such a step.
C3_XmitOnlyPublished == [][C3_Step]_vars

\* C3 witness: a progress call accumulated a slice of connection 0 and left
\* connection 1, whose next slice is not published, where it was.
C3_Witness ==
    /\ args.state = "Progress"
    /\ args.nsubs = 2
    /\ EntriesOf(pass.info, 0) > 0
    /\ EntriesOf(pass.info, 1) = 0
    /\ ceTail[1] <= subs[1].base + subs[1].transmitted
    /\ subs[1].transmitted < subs[1].nsteps

\* The sub-operations of the op whose done cursor is at nsteps.
Finished == { s \in SubIds(args.nsubs) : subs[s].done = subs[s].nsteps }

\* C4 as stated: once an op is past Ready, its tally counts the
\* sub-operations whose done cursor reached nsteps, never exceeds nsubs, and
\* the op has left Progress exactly when the tally is nsubs.
C4_Original ==
    (opsPosted > 0 /\ args.state # "Ready")
    => /\ args.done = Cardinality(Finished)
       /\ args.done <= args.nsubs
       /\ (args.state = "None") <=> (args.done = args.nsubs)

\* C4 amended: the tally counts the finished sub-operations of a Simple op;
\* an op of another protocol counts each sub-operation once on the first
\* call, with its done cursor left at 0.
C4_TallyOncePerSub ==
    (opsPosted > 0 /\ args.state # "Ready")
    => /\ args.protocol = "SIMPLE" => args.done = Cardinality(Finished)
       /\ args.protocol # "SIMPLE" =>
             /\ args.done = args.nsubs
             /\ \A s \in SubIds(args.nsubs) : subs[s].done = 0
       /\ args.done <= args.nsubs
       /\ (args.state = "None") <=> (args.done = args.nsubs)

\* C4 witness: one of two sub-operations of a Simple op finished, the op is
\* still in Progress.
C4_Witness ==
    /\ args.state = "Progress"
    /\ args.protocol = "SIMPLE"
    /\ args.nsubs = 2
    /\ args.done = 1
    /\ Cardinality(Finished) = 1

\* The copies the last progress call issued for a run of full-size slices
\* that a partial slice ended.
PartialEnded == { i \in 1 .. Len(pass.copies) :
                    /\ pass.copies[i].nfull > 0
                    /\ pass.copies[i].term > 0
                    /\ pass.copies[i].term < StepSize }

\* C8 as stated: the merged copy of a run that a partial slice ends has the
\* byte count of the run's full-size slices.
C8_Original ==
    \A i \in PartialEnded : pass.copies[i].bytes = pass.copies[i].nfull * StepSize

\* C8 amended: the merged copy of such a run spans the full-size slices and
\* the partial slice that ends it; the partial slice gets no copy of its own
\* and its event tracks the event recorded for the run.
C8_PartialJoinsRun ==
    \A i \in PartialEnded :
        LET cp == pass.copies[i]
        IN  /\ cp.bytes = cp.nfull * StepSize + cp.term
            /\ Cardinality(cp.covers) = cp.nfull + 1
            /\ \A j \in 1 .. Len(pass.copies) : pass.copies[j].ev # cp.termEv
            /\ \E j \in 1 .. Len(pass.tracks) : pass.tracks[j] = << cp.termEv, cp.ev >>
            /\ events[cp.termEv].tracking = cp.ev

\* C8 witness: the last call issued such a copy.
C8_Witness == PartialEnded # {}

\* ------------------------------------------------- the pipeline under fairness
\* The host posts one Simple op whose sub-operations have a positive multiple
\* of sliceSteps as nsteps.
PostWhole ==
    \E n \in 1 .. NumChannels, ss \in 1 .. MaxSlice, k \in 1 .. MaxStepsMulti :
        /\ simplePosted < MaxOps
        /\ simplePosted' = simplePosted + 1
        /\ PostOp(n, ss, ss, "SIMPLE", [s \in Conns |-> k * ss])

NextWhole == PostWhole \/ PublishAny \/ ProxyProgress \/ HwAny

\* A progress call on an op that is posted and not complete: the step that
\* flips calls.
Called ==
    /\ rc = "ncclSuccess"
    /\ args.state \in {"Ready", "Progress"}
    /\ calls' = 1 - calls

\* The host keeps calling the progress function, the producer keeps
\* publishing until the op's last step, the copy engine completes its work.
Fairness == WF_calls(Called) /\ WF_vars(PublishAny) /\ WF_vars(HwAny)

SpecFair == Init /\ [][NextWhole]_vars /\ Fairness

\* The batched build and the un-batched build.
InitBoth == InitCE({0, 1}) /\ InitRefIdle /\ InitExt

SpecBoth == InitBoth /\ [][NextWhole]_vars /\ Fairness

\* The op is Done and the consumer sees every step of every sub-operation.
TailsAtEnd ==
    /\ args.state = "None"
    /\ \A s \in SubIds(args.nsubs) : shmTail[s] = subs[s].base + subs[s].nsteps

EndState ==
    /\ TailsAtEnd
    /\ \A s \in SubIds(args.nsubs) :
          /\ step[s] = subs[s].base + subs[s].nsteps
          /\ subs[s].done = subs[s].nsteps
          /\ subs[s].base = 0

PostCycle ==
    /\ simplePosted < MaxOps
    /\ simplePosted' = simplePosted + 1
    /\ PostOp(NumChannels, 1, 1, "SIMPLE", [s \in Conns |-> NCCL_STEPS])

\* The slices the producer publishes between two looks of the proxy.
Burst == 4

\* The producer publishes the next Burst slices of connection c, every one
\* full-size: it writes their sizes, then the tail.
PublishBurst(c) ==
    LET cur == Max(ceTail[c], BaseOf(c))
        n   == Min(Burst, BaseOf(c) + subs[c].nsteps - cur)
    IN  /\ rc = "ncclSuccess"
        /\ args.state \in {"Ready", "Progress"}
        /\ c < args.nsubs
        /\ args.protocol = "SIMPLE"
        /\ args.sliceSteps = 1
        /\ n > 0
        /\ cur + n <= Max(shmTail[c], BaseOf(c)) + NCCL_STEPS
        /\ sizesFifo' = [sizesFifo EXCEPT ![c] = [i \in Slots |->
               IF \E j \in 0 .. (n - 1) : (cur + j) % NCCL_STEPS = i
               THEN StepSize ELSE sizesFifo[c][i]]]
        /\ ceTail' = [ceTail EXCEPT ![c] = cur + n]
        /\ psize' = [psize EXCEPT ![c] = @ \o [j \in 1 .. n |-> StepSize]]
        /\ pass' = NoPass
        /\ UNCHANGED << mergeMemcpy, args, subs, step, shmTail, recvFifo, events, stream,
                        memcpyDstBase, memcpyInfo, rc, opsPosted, simplePosted, landed, calls >>
        /\ UNCHANGED << refVars, extVars >>

PublishFull == \E c \in Conns : PublishBurst(c)

NextCycle == PostCycle \/ PublishFull \/ ProxyProgress \/ HwAny

SpecCycle == Init /\ [][NextCycle]_vars

\* The producer published a whole ring of full-size slices on every channel.
CyclePublished ==
    \A c \in Conns :
        /\ ceTail[c] = NCCL_STEPS
        /\ Len(psize[c]) = NCCL_STEPS
        /\ \A k \in 1 .. NCCL_STEPS : psize[c][k] = StepSize

\* Every slice event but the first tracks the first, which is recorded and
\* unresolved; no tail moved yet.
CycleOnOneEvent ==
    /\ events[<< 0, 0 >>].flag = 0
    /\ events[<< 0, 0 >>].tracking = Null
    /\ \A e \in EvIds \ {<< 0, 0 >>} : events[e].tracking = << 0, 0 >> /\ events[e].flag = 0
    /\ \A c \in Conns : shmTail[c] = 0

\* C7, one step: a progress call that accumulates the whole cycle of every
\* channel issues one merged copy over all the slices, records one hardware
\* event and makes every other slice event a tracker of it; the progress call
\* after that event completed brings every channel's consumer-visible tail
\* to the ring depth.
C7_Step ==
    /\ (CyclePublished /\ Len(pass'.info[1]) = NumCells) =>
          /\ Len(pass'.copies) = 1
          /\ pass'.copies[1].bytes = NumCells * StepSize
          /\ pass'.copies[1].covers = Conns \X (1 .. NCCL_STEPS)
          /\ Pending(stream') = {pass'.copies[1].ev}
          /\ Len(pass'.tracks) = NumCells - 1
          /\ \A j \in 1 .. Len(pass'.tracks) : pass'.tracks[j][2] = pass'.copies[1].ev
          /\ { pass'.tracks[j][1] : j \in 1 .. Len(pass'.tracks) } = EvIds \ {pass'.copies[1].ev}
    /\ (CycleOnOneEvent /\ Pending(stream) = {} /\ calls' # calls) =>
          \A c \in Conns : shmTail'[c] = NCCL_STEPS

\* C7: every step is such a step.
C7_OneMergedCopy == [][C7_Step]_vars

\* C7 witness: the state after the progress call that found the whole cycle
\* published: one copy, one recorded event, every other event its tracker.
C7_Witness ==
    /\ CyclePublished
    /\ Len(pass.info[1]) = NumCells
    /\ Len(pass.copies) = 1
    /\ Len(pass.tracks) = NumCells - 1
    /\ CycleOnOneEvent
    /\ Len(stream[0]) = 1

\* ------------------------------------- the shared staging buffer
\* Lines 521-527 of p2pSendProxySetup on [mem, cnt, allocs]: mem is
\* comm->p2pProxySendMem being non-null, cnt is comm->p2pProxySendBuffCnt.
SetupBuff(b) ==
    IF b.mem THEN [b EXCEPT !.cnt = @ + 1]
    ELSE [mem |-> TRUE, cnt |-> 1, allocs |-> b.allocs + 1, frees |-> b.frees]

\* A Free that releases the buffer whoever calls it.
FreeBuff_Always(b) ==
    [mem |-> FALSE, cnt |-> 0, allocs |-> b.allocs, frees |-> b.frees + 1]

\* Lines 612-617 of p2pSendProxyFree.
FreeBuff(b) ==
    IF b.cnt > 1
    THEN IF b.cnt - 1 = 0
         THEN [mem |-> FALSE, cnt |-> b.cnt - 1, allocs |-> b.allocs, frees |-> b.frees + 1]
         ELSE [b EXCEPT !.cnt = @ - 1]
    ELSE b

Buff == [mem |-> sendMem, cnt |-> sendBuffCnt, allocs |-> hist.allocs, frees |-> hist.frees]

\* p2pSendProxySetup of proxy connection p in staged mode.  The proxyInfo
\* block, the shared-memory segment and the host block it allocates belong
\* to the connection alone.
Setup(p) ==
    /\ sharer[p] # "setup"
    /\ hist.setups < MaxSetups
    /\ \E b \in { SetupBuff(Buff) } :
          /\ sendMem' = b.mem
          /\ sendBuffCnt' = b.cnt
          /\ hist' = [allocs |-> b.allocs, frees |-> b.frees, setups |-> hist.setups + 1]
    /\ sharer' = [sharer EXCEPT ![p] = "setup"]
    /\ UNCHANGED << ceVars, extVars >>

\* p2pSendProxyFree of proxy connection p in staged mode.  It also closes
\* the connection's shared-memory segment and destroys its stream and events.
Free(p) ==
    /\ sharer[p] = "setup"
    /\ \E b \in { FreeBuff(Buff) } :
          /\ sendMem' = b.mem
          /\ sendBuffCnt' = b.cnt
          /\ hist' = [hist EXCEPT !.allocs = b.allocs, !.frees = b.frees]
    /\ sharer' = [sharer EXCEPT ![p] = "freed"]
    /\ UNCHANGED << ceVars, extVars >>

SetupAny == \E p \in 1 .. NumSharers : Setup(p)

FreeAny == \E p \in 1 .. NumSharers : Free(p)

NextRef == SetupAny \/ FreeAny

SpecRef == Init /\ [][NextRef]_vars

\* The sharers that called Setup and have not called Free.
Outstanding == { p \in 1 .. NumSharers : sharer[p] = "setup" }

\* C9, one step: the first Setup allocates the buffer, every other Setup
\* adds one to the reference count and allocates nothing, the buffer is
\* allocated once, and no step releases the buffer or leaves it released
\* while a sharer that called Setup has not called Free.
C9_Step ==
    /\ hist'.allocs <= 1
    /\ (hist'.setups = hist.setups + 1 /\ hist.setups = 0) =>
          /\ hist'.allocs = 1
          /\ sendMem'
          /\ sendBuffCnt' = 1
    /\ (hist'.setups = hist.setups + 1 /\ hist.setups > 0) =>
          /\ hist'.allocs = hist.allocs
          /\ sendBuffCnt' = sendBuffCnt + 1
    /\ { p \in 1 .. NumSharers : sharer'[p] = "setup" } # {} =>
          /\ sendMem'
          /\ hist'.frees = hist.frees

\* C9: every step of Setup and Free is such a step.
C9_SharedBufferSafe == [][C9_Step]_vars

\* C9 witness: three sharers set up, one of them called Free, two are
\* outstanding and the buffer is there.
C9_Witness ==
    /\ hist.setups = 3
    /\ hist.allocs = 1
    /\ Cardinality(Outstanding) = 2
    /\ \E p \in 1 .. NumSharers : sharer[p] = "freed"
    /\ sendMem
    /\ sendBuffCnt = 2

\* C10 as stated: when every sharer that called Setup has called Free, the
\* reference count is zero and the buffer is released and its pointer
\* cleared.
C10_LastFreeReleases ==
    (hist.setups > 0 /\ Outstanding = {}) => (sendBuffCnt = 0 /\ ~sendMem /\ hist.frees > 0)

\* ------------------------------------------------- the event graph
\* The MemcpyEvent operations applied, in any order, to NumNodes events.
\* Every operation but Create runs on events Create has run on, and Track
\* is given two different events.
nonEvVars == << ceVars, refVars, canVars, connVars, rcvVars, offVars, stepVars >>

Called_(op, e, t, err, result, polled) ==
    [op |-> op, e |-> e, t |-> t, was |-> graph[e],
     err |-> err, result |-> result, polled |-> polled]

\* p2pMemcpyEventCreate(e), lines 188-195.
EvCreate(e) ==
    /\ e \notin made
    /\ graph' = [graph EXCEPT ![e] = NewEvent]
    /\ made' = made \cup {e}
    /\ evLast' = Called_("Create", e, Null, FALSE, 0, {})
    /\ UNCHANGED << hwPend, nonEvVars >>

\* p2pMemcpyEventRecord(e, s), lines 202-218: the hardware event of e is
\* pending again until the stream reaches it.
EvRecord(e) ==
    /\ e \in made
    /\ graph' = p2pMemcpyEventRecord(graph, e)
    /\ hwPend' = hwPend \cup {e}
    /\ evLast' = Called_("Record", e, Null, FALSE, 0, {})
    /\ UNCHANGED << made, nonEvVars >>

\* p2pMemcpyEventTrack(e, t), lines 219-228.
EvTrack(e, t) ==
    /\ e \in made /\ t \in made /\ e # t
    /\ Len(graph[t].trackers) < MaxTrackers
    /\ \E r \in { p2pMemcpyEventTrack(graph, e, t) } :
          /\ graph' = r.E
          /\ evLast' = Called_("Track", e, t, r.err, 0, {})
    /\ UNCHANGED << made, hwPend, nonEvVars >>

\* p2pMemcpyEventUntrack(e), lines 229-245.
EvUntrack(e) ==
    /\ e \in made
    /\ graph' = p2pMemcpyEventUntrack(graph, e)
    /\ evLast' = Called_("Untrack", e, Null, FALSE, 0, {})
    /\ UNCHANGED << made, hwPend, nonEvVars >>

\* p2pMemcpyEventQuery(e, &result), lines 246-271.
EvQuery(e) ==
    /\ e \in made
    /\ \E r \in { p2pMemcpyEventQuery(graph, hwPend, e) } :
          /\ graph' = r.E
          /\ evLast' = Called_("Query", e, Null, FALSE, r.result, r.polled)
    /\ UNCHANGED << made, hwPend, nonEvVars >>

\* The stream reaches the recorded event of e.
EvHwDone(e) ==
    /\ e \in hwPend
    /\ hwPend' = hwPend \ {e}
    /\ evLast' = Called_("HwDone", e, Null, FALSE, 0, {})
    /\ UNCHANGED << graph, made, nonEvVars >>

EvCreateAny == \E e \in Nodes : EvCreate(e)

EvRecordAny == \E e \in Nodes : EvRecord(e)

EvTrackAny == \E e \in Nodes, t \in Nodes : EvTrack(e, t)

EvUntrackAny == \E e \in Nodes : EvUntrack(e)

EvQueryAny == \E e \in Nodes : EvQuery(e)

EvHwDoneAny == \E e \in Nodes : EvHwDone(e)

NextEv == EvCreateAny \/ EvRecordAny \/ EvTrackAny \/ EvUntrackAny \/ EvQueryAny \/ EvHwDoneAny

SpecEv == Init /\ [][NextEv]_vars

\* A step that is a Track call which returned ncclInternalError.
FailedTrack == evLast'.op = "Track" /\ evLast'.err

\* The two error returns of Track, as its arguments stood before the call.
TrackMustFail ==
    \/ graph[evLast'.t].tracking # Null
    \/ graph[evLast'.e].trackers # << >>

C11_Step ==
    /\ FailedTrack => graph' = graph
    /\ evLast'.op = "Track" => (evLast'.err <=> TrackMustFail)

\* C11: Track(e, t) returns an error when t already has a tracked target and
\* when e already has a non-empty tracker set, and only then; a Track that
\* returns an error leaves e, t and every other event as they were.
C11_TrackFailsUnchanged == [][C11_Step]_vars

\* C11 witnesses: a Track just failed on a target that tracks another event,
\* and a Track just failed on a tracker that has trackers of its own.
C11_Witness ==
    /\ evLast.op = "Track" /\ evLast.err
    /\ graph[evLast.t].tracking # Null
    /\ graph[evLast.e].trackers = << >>

\* The number of times event e is listed in the trackers vector xs.
Occ(xs, e) == Cardinality({ k \in 1 .. Len(xs) : xs[k] = e })

\* The events whose trackers vector lists e.
ListedIn(E, e) == { n \in Nodes : Occ(E[n].trackers, e) > 0 }

\* C12 as stated: whatever the event was, after Untrack it is
\* resolved, has no tracked target and is in no trackers vector.
C12_Original ==
    evLast.op = "Untrack" =>
        /\ graph[evLast.e].flag = 1
        /\ graph[evLast.e].tracking = Null
        /\ ListedIn(graph, evLast.e) = {}

UntrackedTarget(e, t) ==
    /\ graph'[e].flag = 1
    /\ \A n \in Nodes \ {e, t} : graph'[n] = graph[n]
    /\ graph'[t].flag = graph[t].flag
    /\ graph'[t].tracking = graph[t].tracking
    /\ Occ(graph'[t].trackers, e) =
          IF graph[e].flag = 0 /\ Occ(graph[t].trackers, e) > 0
          THEN Occ(graph[t].trackers, e) - 1
          ELSE Occ(graph[t].trackers, e)
    /\ (graph[e].flag = 0 /\ ListedIn(graph, e) = {t} /\ Occ(graph[t].trackers, e) = 1)
          => ListedIn(graph', e) = {}

C12_Step ==
    evLast'.op = "Untrack" =>
        /\ graph'[evLast'.e].tracking = Null
        /\ graph'[evLast'.e].trackers = graph[evLast'.e].trackers
        /\ IF graph[evLast'.e].tracking = Null
           THEN graph' = graph
           ELSE UntrackedTarget(evLast'.e, graph[evLast'.e].tracking)

\* C12: Untrack(e) always leaves e with no tracked target.  When e had a
\* tracked target t it also leaves e resolved, removes one listing of e from
\* t's trackers if e was unresolved, and so leaves an unresolved tracker that
\* was listed once, by t alone, in no trackers vector; when e had no tracked
\* target it changes nothing.
C12_UntrackDetaches == [][C12_Step]_vars

\* C12 witness: Untrack just ran on an unresolved tracker, which is now
\* resolved, without a target and listed nowhere.
C12_Witness ==
    /\ evLast.op = "Untrack"
    /\ evLast.was.tracking # Null
    /\ evLast.was.flag = 0
    /\ graph[evLast.e].flag = 1
    /\ graph[evLast.e].tracking = Null
    /\ ListedIn(graph, evLast.e) = {}

\* The chains a -> tracks -> b of the graph.
Chains == { ab \in made \X made : graph[ab[1]].tracking = ab[2] }

\* What Query(e) would return in this state.
WouldQuery(e) == p2pMemcpyEventQuery(graph, hwPend, e)

\* C13 as stated: along every chain the two queries agree, and
\* when b is resolved Query(a) is true and polls nothing of a.
C13_Original ==
    \A ab \in Chains :
        /\ WouldQuery(ab[1]).result = WouldQuery(ab[2]).result
        /\ graph[ab[2]].flag = 1 =>
              /\ WouldQuery(ab[1]).result = 1
              /\ ab[1] \notin WouldQuery(ab[1]).polled

\* C13: for a chain a -> tracks -> b, Query(a) never polls the hardware
\* event of a.  While a is unresolved Query(a) is Query(b): same result, same
\* polls, same effect; once a is resolved Query(a) returns true whatever b
\* is.  When b is resolved, Query(a) returns true and polls nothing.
C13_ChainQuery ==
    \A ab \in Chains :
        /\ ab[1] \notin WouldQuery(ab[1]).polled
        /\ graph[ab[1]].flag = 0 => WouldQuery(ab[1]) = WouldQuery(ab[2])
        /\ graph[ab[1]].flag = 1 =>
              /\ WouldQuery(ab[1]).result = 1
              /\ WouldQuery(ab[1]).polled = {}
        /\ graph[ab[2]].flag = 1 =>
              /\ WouldQuery(ab[1]).result = 1
              /\ WouldQuery(ab[1]).polled = {}

\* C13 witness: Query(b) just found the hardware event of b complete and
\* resolved b together with a tracker a, which still tracks b.
C13_Witness ==
    /\ evLast.op = "Query"
    /\ evLast.result = 1
    /\ evLast.polled = {evLast.e}
    /\ \E a \in made :
          /\ graph[a].tracking = evLast.e
          /\ Occ(evLast.was.trackers, a) > 0
          /\ graph[a].flag = 1
          /\ WouldQuery(a).result = 1

\* C14 as stated: no event that is the tracked target of another event has
\* a tracked target of its own.
C14_DepthOne ==
    \A ab \in Chains : graph[ab[2]].tracking = Null

\* The events that were in the tracker set of e when the last call, a
\* Record(e), began.
FormerTrackers == { evLast.was.trackers[k] : k \in 1 .. Len(evLast.was.trackers) }

\* The result of Query(x) does not depend on the hardware event of e, and
\* the call does not poll it.
QueryApartFrom(x, e) ==
    /\ p2pMemcpyEventQuery(graph, hwPend \cup {e}, x).result
         = p2pMemcpyEventQuery(graph, hwPend \ {e}, x).result
    /\ e \notin WouldQuery(x).polled

\* C23 as stated: after Record(e), e is unresolved with no tracked target
\* and no trackers, every former tracker holds the flag e had before the
\* call, and the newly recorded hardware event of e does not determine the
\* Query result of a former tracker.
C23_RecordDecouples ==
    evLast.op = "Record" =>
        /\ graph[evLast.e].flag = 0
        /\ graph[evLast.e].tracking = Null
        /\ graph[evLast.e].trackers = << >>
        /\ \A x \in FormerTrackers :
              /\ graph[x].flag = evLast.was.flag
              /\ QueryApartFrom(x, evLast.e)

\* The pairs (x, t) with x listed in the trackers vector of t.
Listings == { xt \in made \X made : Occ(graph[xt[2]].trackers, xt[1]) > 0 }

\* C24 as stated: an event x is in the tracker set of t only if x tracks t
\* and both x and t are unresolved.
C24_TrackersConsistent ==
    \A xt \in Listings :
        /\ graph[xt[1]].tracking = xt[2]
        /\ graph[xt[1]].flag = 0
        /\ graph[xt[2]].flag = 0

\* ------------------------------------------------- p2pCanConnect
\* What a call finds: the peers' identities, the answers of
\* ncclTopoCheckP2p, busIdToCudaDev and cudaDeviceCanAccessPeer, and the
\* results of the three native calls of the legacy-handle probe.
AllAnswers ==
    [sameHost : BOOLEAN, sameShm : BOOLEAN, topoOk : BOOLEAN, topoP2p : {0, 1},
     inter : {-1, 0}, visible : BOOLEAN, peerOk : BOOLEAN, p2p : {0, 1},
     callocOk : BOOLEAN, getOk : BOOLEAN, freeOk : BOOLEAN]

SameNode(in) == in.sameHost /\ in.sameShm

TopoYes(in) == SameNode(in) /\ in.topoOk /\ in.topoP2p = 1

PeerCapable(in) ==
    TopoYes(in) /\ in.inter = -1 /\ in.visible /\ in.peerOk /\ in.p2p = 1

\* An answer the call never asks for is left at one fixed value.
Asked(in) ==
    /\ ~SameNode(in) => in.topoOk
    /\ ~(SameNode(in) /\ in.topoOk) => in.topoP2p = 1
    /\ ~TopoYes(in) => in.inter = -1
    /\ ~(TopoYes(in) /\ in.inter = -1) => in.visible
    /\ ~(TopoYes(in) /\ in.inter = -1 /\ in.visible) => in.peerOk
    /\ ~(TopoYes(in) /\ in.inter = -1 /\ in.visible /\ in.peerOk) => in.p2p = 1
    /\ ~PeerCapable(in) => in.callocOk
    /\ ~(PeerCapable(in) /\ in.callocOk) => (in.getOk /\ in.freeOk)

Answers == { in \in AllAnswers : Asked(in) }

Returned(status, ret, natives, legacy) ==
    [status |-> status, ret |-> ret, natives |-> natives, legacyIPC |-> legacy]

\* Lines 842-851, the value of useMemcpy after initCeOperation().
initCeOperation(tun, use, ini) == IF ini = 0 THEN tun.P2pUseCudaMemcpy ELSE use

\* Lines 147-165: the legacy-handle probe and its cache.
LegacyProbe(legacy, in, before) ==
    IF legacy >= 0 THEN Returned("ncclSuccess", legacy, before, legacy)
    ELSE IF ~in.callocOk
         THEN Returned("ncclSystemError", in.topoP2p, before \o << "calloc" >>, legacy)
    ELSE IF ~in.freeOk
         THEN Returned("ncclUnhandledCudaError", IF in.getOk THEN in.topoP2p ELSE 0,
                       before \o << "calloc", "ipcGetMemHandle", "free" >>, legacy)
    ELSE Returned("ncclSuccess", IF in.getOk THEN in.topoP2p ELSE 0,
                  before \o << "calloc", "ipcGetMemHandle", "free" >>,
                  IF in.getOk THEN in.topoP2p ELSE 0)

\* A p2pCanConnect that asks the topology before it compares the hosts.
p2pCanConnect_TopoFirst(tun, use, legacy, in) ==
    IF ~in.topoOk THEN Returned("ncclSystemError", Unwritten, << "topo" >>, legacy)
    ELSE Returned("ncclSuccess", 0, << "topo" >>, legacy)

\* A p2pCanConnect that probes again on every call.
p2pCanConnect_NoCache(tun, use, legacy, in) ==
    IF PeerCapable(in)
    THEN LegacyProbe(-1, in, << "topo", "busIdToCudaDev", "canAccessPeer" >>)
    ELSE Returned("ncclSuccess", 0, << >>, legacy)

\* A p2pCanConnect that goes on to the peer-access query for a path that
\* runs through an intermediate rank.
p2pCanConnect_ThroughRank(tun, use, legacy, in) ==
    IF ~SameNode(in) THEN Returned("ncclSuccess", 0, << >>, legacy)
    ELSE IF ~in.topoOk THEN Returned("ncclSystemError", Unwritten, << "topo" >>, legacy)
    ELSE Returned("ncclSuccess", in.topoP2p,
                  << "topo", "busIdToCudaDev", "canAccessPeer" >>, legacy)

\* p2pCanConnect, lines 106-174, after its call of initCeOperation: use is
\* useMemcpy, legacy is the cache.  [status, ret, natives, legacyIPC].
p2pCanConnect(tun, use, legacy, in) ==
    IF ~in.sameHost \/ ~in.sameShm THEN Returned("ncclSuccess", 0, << >>, legacy)
    ELSE IF ~in.topoOk THEN Returned("ncclSystemError", Unwritten, << "topo" >>, legacy)
    ELSE IF in.topoP2p = 0 THEN Returned("ncclSuccess", 0, << "topo" >>, legacy)
    ELSE IF in.inter # -1
         THEN Returned("ncclSuccess", IF use # 0 THEN 0 ELSE in.topoP2p, << "topo" >>, legacy)
    ELSE IF ~in.visible
         THEN Returned("ncclSuccess", IF tun.cudart10010 THEN in.topoP2p ELSE 0,
                       << "topo", "busIdToCudaDev" >>, legacy)
    ELSE IF ~in.peerOk
         THEN Returned("ncclSuccess", 0, << "topo", "busIdToCudaDev", "canAccessPeer" >>, legacy)
    ELSE IF in.p2p # 0
         THEN LegacyProbe(legacy, in, << "topo", "busIdToCudaDev", "canAccessPeer" >>)
    ELSE Returned("ncclSuccess", 0, << "topo", "busIdToCudaDev", "canAccessPeer" >>, legacy)

Did(natives, call) == \E k \in 1 .. Len(natives) : natives[k] = call

nonCanVars == << ceVars, refVars, evVars, connVars, rcvVars, offVars, stepVars >>

\* One call of p2pCanConnect.
CanConnect(in) ==
    /\ ccHist.calls < MaxCalls
    /\ useMemcpy' = initCeOperation(tunables, useMemcpy, init)
    /\ init' = 1
    /\ \E r \in { p2pCanConnect(tunables, initCeOperation(tunables, useMemcpy, init),
                                legacyIPC, in) } :
          /\ legacyIPC' = r.legacyIPC
          /\ ccLast' = [called |-> TRUE, in |-> in, status |-> r.status, ret |-> r.ret,
                        natives |-> r.natives, cached |-> legacyIPC]
          /\ ccHist' = [calls |-> ccHist.calls + 1,
                        probes |-> ccHist.probes +
                            (IF Did(r.natives, "ipcGetMemHandle") THEN 1 ELSE 0),
                        completed |-> ccHist.completed +
                            (IF legacyIPC < 0 /\ r.legacyIPC >= 0 THEN 1 ELSE 0)]
    /\ UNCHANGED << tunables, nonCanVars >>

CanConnectAny == \E in \in Answers : CanConnect(in)

\* The build and the environment of the process: P2P_USE_CUDA_MEMCPY,
\* P2P_READ_ENABLE and the CUDA runtime the file was compiled against.
Tunables ==
    [P2pUseCudaMemcpy : {0, 1}, P2pReadEnable : {-2, 0, 1}, cudart10010 : BOOLEAN]

InitAnyTunables ==
    /\ InitCE({MERGE_MEMCPY}) /\ InitRefIdle /\ InitEv /\ InitConnIdle /\ InitRest
    /\ tunables \in Tunables
    /\ InitStatics

NextCan == CanConnectAny

SpecCan == InitAnyTunables /\ [][NextCan]_vars

\* C15: a call for two peers whose host identities or shared-memory
\* namespaces differ returns ncclSuccess with *ret = 0 and makes no call at
\* all: no topology query, no peer-access query, no legacy-handle probe.
C15_OtherNodeNoQuery ==
    (ccLast.called /\ ~SameNode(ccLast.in)) =>
        /\ ccLast.status = "ncclSuccess"
        /\ ccLast.ret = 0
        /\ ccLast.natives = << >>
        /\ legacyIPC = ccLast.cached

\* C15 witness: a call for peers of one host in different shared-memory
\* namespaces has returned.
C15_Witness ==
    /\ ccLast.called
    /\ ccLast.in.sameHost /\ ~ccLast.in.sameShm
    /\ ccLast.ret = 0

\* The last call found the cache set, for a pair that passes the topology
\* and the peer-access query.
CachedCall == ccLast.called /\ ccLast.cached >= 0 /\ PeerCapable(ccLast.in)

\* C16 as stated: the probe is started at most once, and a
\* later call for a peer-access capable pair returns the cached value and
\* allocates nothing.
C16_Original ==
    /\ ccHist.probes <= 1
    /\ (ccLast.called /\ ccHist.probes >= 1 /\ PeerCapable(ccLast.in)
          /\ ~Did(ccLast.natives, "ipcGetMemHandle")) =>
            /\ ccLast.ret = ccLast.cached
            /\ ~Did(ccLast.natives, "calloc")

\* C16: the probe completes at most once: the cache is set exactly when one
\* call has allocated the buffer, tried the export and freed the buffer with
\* no native error.  From then on the cache never changes, no call allocates,
\* and a call for a peer-access capable pair returns the cached value.  A
\* call allocates only while the cache is unset.
C16_ProbeCompletesOnce ==
    /\ ccHist.completed <= 1
    /\ (legacyIPC >= 0) <=> (ccHist.completed = 1)
    /\ legacyIPC \in {-1, 0, 1}
    /\ (ccLast.called /\ ccLast.cached >= 0) =>
          /\ legacyIPC = ccLast.cached
          /\ ~Did(ccLast.natives, "calloc")
          /\ ~Did(ccLast.natives, "ipcGetMemHandle")
    /\ CachedCall => (ccLast.status = "ncclSuccess" /\ ccLast.ret = ccLast.cached)
    /\ (ccLast.called /\ ccLast.cached < 0 /\ legacyIPC >= 0) =>
          /\ Did(ccLast.natives, "free")
          /\ ccLast.status = "ncclSuccess"
          /\ ccLast.ret = legacyIPC

\* C16 witness: a later call for a peer-access capable pair returned the
\* value an earlier call had cached.
C16_Witness ==
    /\ CachedCall
    /\ ccHist.calls >= 2
    /\ ccHist.completed = 1
    /\ ccLast.ret = ccLast.cached

\* C17: when the topology answers yes through an intermediate rank, the
\* call returns ncclSuccess after the topology query alone, with *ret = 0 in
\* staged mode and with the topology's answer otherwise.
C17_ThroughIntermediateRank ==
    (ccLast.called /\ TopoYes(ccLast.in) /\ ccLast.in.inter # -1) =>
        /\ ccLast.status = "ncclSuccess"
        /\ ccLast.ret = IF useMemcpy # 0 THEN 0 ELSE ccLast.in.topoP2p
        /\ ccLast.natives = << "topo" >>
        /\ legacyIPC = ccLast.cached

\* C17 witness: outside staged mode, a call for a path through an
\* intermediate rank returned the topology's yes.
C17_Witness ==
    /\ ccLast.called
    /\ TopoYes(ccLast.in) /\ ccLast.in.inter # -1
    /\ useMemcpy = 0
    /\ ccLast.ret = 1

\* ------------------------------------------- Setup, Connect and Free
\* One send connector, one receive connector and the proxy connection of
\* the send connector, in a process whose p2pCanConnect has run.  A side
\* holds [phase, held, devMem, info, conn]: held is the set of resources it
\* has acquired and not released, devMem says resources->devMem is set, info
\* is the p2pConnectInfo its Setup wrote, conn the pointers Connect wired.
nonConnVars == << ceVars, evVars, canVars, rcvVars, offVars, stepVars >>

\* p2pGetInfo, lines 273-282: the read flag Setup starts from.
p2pGetInfo(tun, lk) ==
    IF tun.P2pReadEnable # -2 THEN tun.P2pReadEnable ELSE lk.topoRead

\* info->read as p2pSendSetup leaves it, lines 313-322.
SendSetupRead(tun, use, lk) ==
    IF lk.connIndex = 1 THEN 0
    ELSE IF use # 0 THEN 0
    ELSE p2pGetInfo(tun, lk)

\* info->read as p2pRecvSetup leaves it, lines 368-376.
RecvSetupRead(tun, use, lk) ==
    IF lk.connIndex = 1 THEN 0 ELSE p2pGetInfo(tun, lk)

\* The handles p2pMap leaves in *ipcPtr, lines 284-304.
Mapped(lk, handle) == IF lk.samePid THEN {} ELSE {handle}

\* p2pSendSetup, lines 307-359.  ok.proxy is the result of the Setup
\* request to the proxy, ok.map that of p2pMap.
p2pSendSetup(tun, use, lk, ok) ==
    IF ~ok.proxy
    THEN [status |-> "ncclSystemError", steps |-> << "proxySetup" >>,
          side |-> [phase |-> "failed", held |-> {"resources"}, devMem |-> FALSE,
                    info |-> [read |-> SendSetupRead(tun, use, lk), shm |-> FALSE,
                              p2pBuff |-> FALSE],
                    conn |-> NoConn]]
    ELSE IF use # 0
    THEN [status |-> "ncclSuccess", steps |-> << "proxySetup" >>,
          side |-> [phase |-> "setup", held |-> {"resources"}, devMem |-> FALSE,
                    info |-> [read |-> SendSetupRead(tun, use, lk), shm |-> TRUE,
                              p2pBuff |-> FALSE],
                    conn |-> NoConn]]
    ELSE IF ~ok.map
    THEN [status |-> "ncclUnhandledCudaError", steps |-> << "proxySetup", "p2pMap" >>,
          side |-> [phase |-> "failed", held |-> {"resources"}, devMem |-> FALSE,
                    info |-> [read |-> SendSetupRead(tun, use, lk), shm |-> FALSE,
                              p2pBuff |-> TRUE],
                    conn |-> NoConn]]
    ELSE [status |-> "ncclSuccess", steps |-> << "proxySetup", "p2pMap" >>,
          side |-> [phase |-> "setup", held |-> {"resources"} \cup Mapped(lk, "sendMemIpc"),
                    devMem |-> TRUE,
                    info |-> [read |-> SendSetupRead(tun, use, lk), shm |-> FALSE,
                              p2pBuff |-> TRUE],
                    conn |-> NoConn]]

\* p2pRecvSetup, lines 362-399.
p2pRecvSetup(tun, use, lk, ok) ==
    IF ~ok.proxy
    THEN [status |-> "ncclSystemError", steps |-> << "proxySetup" >>,
          side |-> [phase |-> "failed", held |-> {"resources"}, devMem |-> FALSE,
                    info |-> [read |-> RecvSetupRead(tun, use, lk), shm |-> FALSE,
                              p2pBuff |-> FALSE],
                    conn |-> NoConn]]
    ELSE IF ~ok.map
    THEN [status |-> "ncclUnhandledCudaError", steps |-> << "proxySetup", "p2pMap" >>,
          side |-> [phase |-> "failed", held |-> {"resources"}, devMem |-> FALSE,
                    info |-> [read |-> RecvSetupRead(tun, use, lk), shm |-> FALSE,
                              p2pBuff |-> TRUE],
                    conn |-> NoConn]]
    ELSE [status |-> "ncclSuccess", steps |-> << "proxySetup", "p2pMap" >>,
          side |-> [phase |-> "setup", held |-> {"resources"} \cup Mapped(lk, "recvMemIpc"),
                    devMem |-> TRUE,
                    info |-> [read |-> RecvSetupRead(tun, use, lk), shm |-> FALSE,
                              p2pBuff |-> TRUE],
                    conn |-> NoConn]]

\* What p2pSendProxySetup leaves in the proxy connection, lines 515-562.
p2pSendProxySetup(use) ==
    IF use # 0
    THEN [phase |-> "setup", held |-> {"proxyInfo", "ceDevBuff", "offsets", "shm", "ceRecvMem"}]
    ELSE [phase |-> "setup", held |-> {"directPtr"}]

\* The native call that fails in a handler, if any: a handler returns at
\* its first failing call, so the calls behind it are never made.
Passing(fails, natives) == [c \in natives |-> c \notin fails]

SetupResults == { Passing({f}, {"proxy", "map"}) : f \in {"none", "proxy", "map"} }

ConnCalled(op, r, read) ==
    [op |-> op, status |-> r.status, steps |-> r.steps, read |-> read, failed |-> "none"]

\* The transport layer calls the handlers of a communicator one after the
\* other: the Setups, then the Connects once every Setup succeeded, then the
\* Frees, after the Connects or as soon as a handler failed.
Phases == {sendSide.phase, recvSide.phase}

SetupStage == Phases \subseteq {"none", "setup"}

ConnectStage == Phases \subseteq {"setup", "connected"}

FreeStage == "failed" \in Phases \/ "freed" \in Phases \/ Phases = {"connected"}

\* The send connector's Setup, with the Setup request it sends to the proxy.
SendSetup(ok) ==
    /\ SetupStage
    /\ sendSide.phase = "none"
    /\ \E r \in { p2pSendSetup(tunables, useMemcpy, link, ok) } :
          /\ sendSide' = r.side
          /\ connLast' = ConnCalled("SendSetup", r, r.side.info.read)
    /\ IF ok.proxy
       THEN /\ proxySide' = p2pSendProxySetup(useMemcpy)
            /\ IF useMemcpy # 0
               THEN \E b \in { SetupBuff(Buff) } :
                       /\ sendMem' = b.mem
                       /\ sendBuffCnt' = b.cnt
                       /\ hist' = [allocs |-> b.allocs, frees |-> b.frees,
                                   setups |-> hist.setups + 1]
               ELSE UNCHANGED << sendMem, sendBuffCnt, hist >>
       ELSE UNCHANGED << proxySide, sendMem, sendBuffCnt, hist >>
    /\ UNCHANGED << link, recvSide, sharer, nonConnVars >>

\* The receive connector's Setup.
RecvSetup(ok) ==
    /\ SetupStage
    /\ recvSide.phase = "none"
    /\ \E r \in { p2pRecvSetup(tunables, useMemcpy, link, ok) } :
          /\ recvSide' = r.side
          /\ connLast' = ConnCalled("RecvSetup", r, r.side.info.read)
    /\ UNCHANGED << link, sendSide, proxySide, refVars, nonConnVars >>

SendSetupAny == \E ok \in SetupResults : SendSetup(ok)

RecvSetupAny == \E ok \in SetupResults : RecvSetup(ok)

\* The connection the two Setups are called for.
Links == [topoRead : {0, 1}, samePid : BOOLEAN, connIndex : {0, 1}]

\* The process after p2pCanConnect accepted the pair: initCeOperation has
\* set useMemcpy from the parameter.
InitConn ==
    /\ InitCE({MERGE_MEMCPY}) /\ InitRefIdle /\ InitEv /\ InitRest
    /\ tunables \in Tunables
    /\ tunables.cudart10010
    /\ useMemcpy = tunables.P2pUseCudaMemcpy
    /\ init = 1
    /\ legacyIPC = -1
    /\ ccLast = NoCanConnect
    /\ ccHist = [calls |-> 0, probes |-> 0, completed |-> 0]
    /\ link \in Links
    /\ InitSides

\* C18 as stated: in staged mode the descriptor of the send-side Setup and
\* the descriptor of the receive-side Setup both carry read = 0.
C18_StagedForcesWrite ==
    (useMemcpy # 0) =>
        /\ sendSide.phase = "setup" => sendSide.info.read = 0
        /\ recvSide.phase = "setup" => recvSide.info.read = 0

\* What a handler returns: its status, the steps it ran, the side it leaves.
Left(status, steps, side, phase) ==
    [status |-> status, steps |-> steps, side |-> [side EXCEPT !.phase = phase]]

\* Lines 421-442 of p2pSendConnect: the pointers wired once the buffers
\* are placed.  simple is where buffs[NCCL_PROTO_SIMPLE] points.
SendWire(side, use, simple, ok) ==
    IF use # 0
    THEN IF ~ok.proxy
         THEN Left("ncclSystemError", << "p2pMap", "buffs", "wire", "proxyConnect" >>,
                   [side EXCEPT !.conn = [head |-> "devShm->sendMem.head",
                                          tail |-> "ceRecvMem->tail", simple |-> simple]],
                   "failed")
         ELSE IF ~ok.calloc
         THEN Left("ncclUnhandledCudaError",
                   << "p2pMap", "buffs", "wire", "proxyConnect", "offsFifo" >>,
                   [side EXCEPT !.conn = [head |-> "devShm->sendMem.head",
                                          tail |-> "ceRecvMem->tail", simple |-> "ceDevBuff"]],
                   "failed")
         ELSE Left("ncclSuccess", << "p2pMap", "buffs", "wire", "proxyConnect", "offsFifo" >>,
                   [side EXCEPT !.conn = [head |-> "devShm->sendMem.head",
                                          tail |-> "ceRecvMem->tail", simple |-> "ceDevBuff"],
                                !.held = @ \cup {"offsFifo"}],
                   "connected")
    ELSE Left("ncclSuccess", << "p2pMap", "buffs", "wire" >>,
              [side EXCEPT !.conn = [head |-> "devMem->head", tail |-> "remDevMem->tail",
                                     simple |-> simple]],
              "connected")

\* A p2pSendConnect without the test of line 413.
p2pSendConnect_NoCheck(side, use, lk, read, ok) ==
    IF ~ok.map THEN Left("ncclUnhandledCudaError", << "p2pMap" >>, side, "failed")
    ELSE SendWire([side EXCEPT !.held = @ \cup Mapped(lk, "recvMemIpc")], use,
                  IF read # 0 THEN "devMem" ELSE "remDevMem", ok)

\* p2pSendConnect, lines 402-444, given a peer descriptor with info->read =
\* read.  ok.map, ok.proxy and ok.calloc are the results of p2pMap, of the
\* Connect request to the proxy and of the offsFifo allocation.
p2pSendConnect(side, use, lk, read, ok) ==
    IF ~ok.map THEN Left("ncclUnhandledCudaError", << "p2pMap" >>, side, "failed")
    ELSE IF read # 0 /\ ~side.devMem
    THEN Left("ncclInternalError", << "p2pMap", "buffs" >>,
              [side EXCEPT !.held = @ \cup Mapped(lk, "recvMemIpc")], "failed")
    ELSE SendWire([side EXCEPT !.held = @ \cup Mapped(lk, "recvMemIpc")], use,
                  IF read # 0 THEN "devMem" ELSE "remDevMem", ok)

\* Lines 473-493 of p2pRecvConnect: the buffers, after head and tail are
\* wired.  remote says remDevMem is set.
RecvBuffs(side, remote, read, before, ok) ==
    IF read # 0 /\ ~remote
    THEN Left("ncclInternalError", before \o << "wire", "buffs" >>, side, "failed")
    ELSE IF ~ok.calloc
    THEN Left("ncclUnhandledCudaError", before \o << "wire", "buffs", "offsFifo" >>,
              [side EXCEPT !.conn.simple = IF read # 0 THEN "remDevMem" ELSE "devMem"],
              "failed")
    ELSE Left("ncclSuccess", before \o << "wire", "buffs", "offsFifo" >>,
              [side EXCEPT !.conn.simple = IF read # 0 THEN "remDevMem" ELSE "devMem",
                           !.held = @ \cup {"offsFifo"}],
              "connected")

\* p2pRecvConnect, lines 447-494.  ok.shmOpen, ok.shmUnlink, ok.map and
\* ok.calloc are the results of ncclShmOpen, ncclShmUnlink, p2pMap and of
\* the offsFifo allocation.
p2pRecvConnect(side, use, lk, read, ok) ==
    IF use # 0
    THEN IF ~ok.shmOpen THEN Left("ncclSystemError", << "shmOpen" >>, side, "failed")
         ELSE IF ~ok.shmUnlink
         THEN Left("ncclSystemError", << "shmOpen", "shmUnlink" >>,
                   [side EXCEPT !.held = @ \cup {"shm"}], "failed")
         ELSE RecvBuffs([side EXCEPT !.held = @ \cup {"shm"},
                                     !.conn = [head |-> "devShm->sendMem.head",
                                               tail |-> "devShm->recvMem.tail",
                                               simple |-> "unset"]],
                        FALSE, read, << "shmOpen", "shmUnlink" >>, ok)
    ELSE IF ~ok.map THEN Left("ncclUnhandledCudaError", << "p2pMap" >>, side, "failed")
         ELSE RecvBuffs([side EXCEPT !.held = @ \cup Mapped(lk, "sendMemIpc"),
                                     !.conn = [head |-> "remDevMem->head",
                                               tail |-> "devMem->tail",
                                               simple |-> "unset"]],
                        TRUE, read, << "p2pMap" >>, ok)

\* What p2pSendProxyConnect adds to the proxy connection, lines 591-605.
p2pSendProxyConnect(px) == [phase |-> "connected", held |-> px.held \cup {"stream", "events"}]

ConnectCalls == {"map", "proxy", "calloc", "shmOpen", "shmUnlink"}

ConnectResults == { Passing({f}, ConnectCalls) : f \in ConnectCalls \cup {"none"} }

\* The send connector's Connect, given the descriptor of the peer.
SendConnect(read, ok) ==
    /\ ConnectStage
    /\ sendSide.phase = "setup"
    /\ \E r \in { p2pSendConnect(sendSide, useMemcpy, link, read, ok) } :
          /\ sendSide' = r.side
          /\ connLast' = ConnCalled("SendConnect", r, read)
          /\ proxySide' = IF Did(r.steps, "proxyConnect") /\ ok.proxy
                          THEN p2pSendProxyConnect(proxySide) ELSE proxySide
    /\ UNCHANGED << link, recvSide, refVars, nonConnVars >>

\* The receive connector's Connect, given the descriptor of the peer.
RecvConnect(read, ok) ==
    /\ ConnectStage
    /\ recvSide.phase = "setup"
    /\ \E r \in { p2pRecvConnect(recvSide, useMemcpy, link, read, ok) } :
          /\ recvSide' = r.side
          /\ connLast' = ConnCalled("RecvConnect", r, read)
    /\ UNCHANGED << link, sendSide, proxySide, refVars, nonConnVars >>

SendConnectAny == \E read \in {0, 1}, ok \in ConnectResults : SendConnect(read, ok)

RecvConnectAny == \E read \in {0, 1}, ok \in ConnectResults : RecvConnect(read, ok)

\* The last call was a Connect that reached the placing of the buffers with
\* read mode and the staged layout together.
SendReadStaged ==
    /\ connLast.op = "SendConnect" /\ connLast.read # 0
    /\ ~sendSide.devMem /\ Did(connLast.steps, "buffs")

RecvReadStaged ==
    /\ connLast.op = "RecvConnect" /\ connLast.read # 0
    /\ useMemcpy # 0 /\ Did(connLast.steps, "buffs")

Freed(status, steps, failed, held) ==
    [status |-> status, steps |-> steps, failed |-> failed, held |-> held]

\* One CUDACHECK(cudaIpcCloseMemHandle(...)) of a Free handler, guarded by
\* the handle being set: r is what the handler did so far.
CloseHandle(r, handle, ok) ==
    IF r.failed # "none" \/ handle \notin r.held THEN r
    ELSE IF ~ok THEN Freed("ncclUnhandledCudaError", Append(r.steps, handle), handle, r.held)
    ELSE Freed(r.status, Append(r.steps, handle), "none", r.held \ {handle})

\* One checked teardown call that is made whatever the handler holds.
Teardown(r, what, ok, status) ==
    IF r.failed # "none" THEN r
    ELSE IF ~ok THEN Freed(status, Append(r.steps, what), what, r.held)
    ELSE Freed(r.status, Append(r.steps, what), "none", r.held \ {what})

\* free(resources) or free(proxyInfo), the last line of a handler.
FreeStruct(r, what) ==
    IF r.failed # "none" THEN r
    ELSE Freed(r.status, Append(r.steps, what), "none", r.held \ {what})

\* A p2pSendFree that goes on after a failed close and reports success.
p2pSendFree_BestEffort(held, ok) ==
    Freed("ncclSuccess",
          (IF "sendMemIpc" \in held THEN << "sendMemIpc" >> ELSE << >>)
            \o (IF "recvMemIpc" \in held THEN << "recvMemIpc" >> ELSE << >>)
            \o << "resources" >>,
          IF "sendMemIpc" \in held /\ ~ok.close1 THEN "sendMemIpc"
          ELSE IF "recvMemIpc" \in held /\ ~ok.close2 THEN "recvMemIpc" ELSE "none",
          held \ {"sendMemIpc", "recvMemIpc", "resources"})

\* p2pSendFree, lines 496-502.
p2pSendFree(held, ok) ==
    FreeStruct(CloseHandle(CloseHandle(Freed("ncclSuccess", << >>, "none", held),
                                       "sendMemIpc", ok.close1),
                           "recvMemIpc", ok.close2),
               "resources")

\* p2pRecvFree, lines 504-513.
p2pRecvFree(held, use, ok) ==
    LET Shm(r) == IF use # 0 THEN Teardown(r, "shm", ok.shmClose, "ncclSystemError") ELSE r
    IN  FreeStruct(Shm(CloseHandle(CloseHandle(Freed("ncclSuccess", << >>, "none", held),
                                               "sendMemIpc", ok.close1),
                                   "recvMemIpc", ok.close2)),
                   "resources")

\* Lines 612-617 inside p2pSendProxyFree: the cudaFree of the shared buffer
\* is checked.
FreeShared(r, b, ok) ==
    IF r.failed # "none" THEN r
    ELSE IF FreeBuff(b).frees > b.frees
         THEN Teardown(r, "ceDevBuff", ok.cudaFree, "ncclUnhandledCudaError")
         ELSE r

\* p2pSendProxyFree, lines 607-632: [status, steps, failed, held].
p2pSendProxyFree(held, use, b, ok) ==
    IF use # 0
    THEN FreeStruct(
           Teardown(
             Teardown(
               FreeShared(
                 Teardown(
                   Teardown(Freed("ncclSuccess", << >>, "none", held),
                            "shm", ok.shmClose, "ncclSystemError"),
                   "ceRecvMem", ok.hostFree, "ncclUnhandledCudaError"),
                 b, ok),
               "stream", ok.stream, "ncclUnhandledCudaError"),
             "events", ok.events, "ncclInternalError"),
           "proxyInfo")
    ELSE Freed("ncclSuccess", << "directPtr" >>,
               IF ok.cudaFree THEN "none" ELSE "directPtr", held \ {"directPtr"})

FreeCalls == {"close1", "close2", "shmClose", "hostFree", "cudaFree", "stream", "events"}

FreeResults == { Passing({f}, FreeCalls) : f \in FreeCalls \cup {"none"} }

FreeCalled(op, r) ==
    [op |-> op, status |-> r.status, steps |-> r.steps, read |-> 0, failed |-> r.failed]

\* The send connector's Free.
SendFree(ok) ==
    /\ FreeStage
    /\ sendSide.phase \in {"setup", "connected", "failed"}
    /\ \E r \in { p2pSendFree(sendSide.held, ok) } :
          /\ sendSide' = [sendSide EXCEPT !.phase = "freed", !.held = r.held]
          /\ connLast' = FreeCalled("SendFree", r)
    /\ UNCHANGED << link, recvSide, proxySide, refVars, nonConnVars >>

\* The receive connector's Free.
RecvFree(ok) ==
    /\ FreeStage
    /\ recvSide.phase \in {"setup", "connected", "failed"}
    /\ \E r \in { p2pRecvFree(recvSide.held, useMemcpy, ok) } :
          /\ recvSide' = [recvSide EXCEPT !.phase = "freed", !.held = r.held]
          /\ connLast' = FreeCalled("RecvFree", r)
    /\ UNCHANGED << link, sendSide, proxySide, refVars, nonConnVars >>

\* The Free of the send connector's proxy connection: in staged mode after
\* the proxy's Connect created the stream and the events.
SendProxyFree(ok) ==
    /\ FreeStage
    /\ proxySide.phase = IF useMemcpy # 0 THEN "connected" ELSE "setup"
    /\ \E r \in { p2pSendProxyFree(proxySide.held, useMemcpy, Buff, ok) } :
          /\ proxySide' = [phase |-> "freed", held |-> r.held]
          /\ connLast' = FreeCalled("SendProxyFree", r)
          /\ IF useMemcpy # 0 /\ r.failed \notin {"shm", "ceRecvMem"}
             THEN \E b \in { FreeBuff(Buff) } :
                     /\ sendMem' = (b.mem \/ r.failed = "ceDevBuff")
                     /\ sendBuffCnt' = b.cnt
                     /\ hist' = [hist EXCEPT !.frees =
                                   IF r.failed = "ceDevBuff" THEN @ ELSE b.frees]
             ELSE UNCHANGED << sendMem, sendBuffCnt, hist >>
    /\ UNCHANGED << link, sendSide, recvSide, sharer, nonConnVars >>

SendFreeAny == \E ok \in FreeResults : SendFree(ok)

RecvFreeAny == \E ok \in FreeResults : RecvFree(ok)

SendProxyFreeAny == \E ok \in FreeResults : SendProxyFree(ok)

NextConn ==
    \/ SendSetupAny \/ RecvSetupAny
    \/ SendConnectAny \/ RecvConnectAny
    \/ SendFreeAny \/ RecvFreeAny \/ SendProxyFreeAny

SpecConn == InitConn /\ [][NextConn]_vars

\* What the last Free handler was called on still holds.
StillHeld ==
    IF connLast.op = "SendFree" THEN sendSide.held
    ELSE IF connLast.op = "RecvFree" THEN recvSide.held
    ELSE proxySide.held

\* What a Free handler has a release step for.
Releases ==
    IF connLast.op = "SendFree" THEN {"sendMemIpc", "recvMemIpc", "resources"}
    ELSE IF connLast.op = "RecvFree" THEN {"sendMemIpc", "recvMemIpc", "shm", "resources"}
    ELSE {"shm", "ceRecvMem", "stream", "events", "proxyInfo", "directPtr"}

FreeOps == {"SendFree", "RecvFree", "SendProxyFree"}

\* The branch of p2pSendProxyFree that does not check its cudaFree.
Unchecked == connLast.op = "SendProxyFree" /\ useMemcpy = 0

C27_SameReadMode ==
    (sendSide.phase # "none" /\ recvSide.phase # "none") =>
        sendSide.info.read = recvSide.info.read

\* ------------------------------------- the shared receive buffer
\* The sizes a receive-side Setup request may carry, and the native call of
\* p2pRecvProxySetup that fails, if any.
RecvSizes == {1, 2}

RecvFaults == {"none", "ncclCudaCalloc", "cudaIpcGetMemHandle"}

RecvBuff == [mem |-> recvMem, cnt |-> recvBuffCnt, size |-> recvBuffSize,
             allocs |-> rhist.allocs, live |-> rhist.live, frees |-> rhist.frees,
             stale |-> rhist.stale]

\* cudaFree(res) at lines 585 and 636, its return code unused: it releases
\* the allocation res points to; on a pointer whose allocation is already
\* released it fails, and on a null pointer it does nothing.
cudaFreeRecv(b, res) ==
    IF ~res THEN b
    ELSE IF b.live THEN [b EXCEPT !.live = FALSE, !.frees = @ + 1]
    ELSE [b EXCEPT !.stale = @ + 1]

\* Lines 573-575: the first allocation.
AllocRecv(b, size) ==
    [b EXCEPT !.mem = TRUE, !.cnt = 1, !.size = size, !.allocs = @ + 1, !.live = TRUE]

\* Lines 581-590 on the buffer b the connection is given.
HandOut(b, fault) ==
    IF fault = "cudaIpcGetMemHandle"
    THEN [buff |-> cudaFreeRecv(b, TRUE), status |-> "cudaError", res |-> TRUE]
    ELSE [buff |-> b, status |-> "ncclSuccess", res |-> TRUE]

\* p2pRecvProxySetup (564-591) with MERGE_MEMCPY == 1, on a connection whose
\* transportResources is res: the buffer afterwards, the status, and
\* transportResources afterwards.
p2pRecvProxySetup(b, res, size, fault) ==
    IF b.mem
    THEN IF b.size # size
         THEN [buff |-> b, status |-> "ncclInternalError", res |-> res]
         ELSE HandOut(b, fault)
    ELSE IF fault = "ncclCudaCalloc"
         THEN [buff |-> b, status |-> "cudaError", res |-> res]
         ELSE HandOut(AllocRecv(b, size), fault)

\* p2pRecvProxyFree (634-638).
p2pRecvProxyFree(b, res) == cudaFreeRecv(b, res)

RecvCalled(op, p, status, size) == [op |-> op, p |-> p, status |-> status, size |-> size]

SetBuff(b, setups, last) ==
    /\ recvMem' = b.mem
    /\ recvBuffCnt' = b.cnt
    /\ recvBuffSize' = b.size
    /\ rhist' = [allocs |-> b.allocs, live |-> b.live, frees |-> b.frees,
                 stale |-> b.stale, setups |-> setups, last |-> last]

\* The proxy runs p2pRecvProxySetup for a new receive connection p.
RecvProxySetup(p, size, fault) ==
    /\ rsharer[p].state = "none"
    /\ rhist.setups < MaxSetups
    /\ \E r \in { p2pRecvProxySetup(RecvBuff, rsharer[p].res, size, fault) } :
          /\ SetBuff(r.buff, rhist.setups + 1, RecvCalled("Setup", p, r.status, size))
          /\ rsharer' = [rsharer EXCEPT ![p] =
                [state |-> IF r.status = "ncclSuccess" THEN "setup" ELSE "failed",
                 res |-> r.res]]
    /\ UNCHANGED << ceVars, refVars, evVars, canVars, connVars, offVars, stepVars >>

\* The proxy runs p2pRecvProxyFree for a connection whose Setup succeeded.
RecvProxyFree(p) ==
    /\ rsharer[p].state = "setup"
    /\ SetBuff(p2pRecvProxyFree(RecvBuff, rsharer[p].res), rhist.setups,
               RecvCalled("Free", p, "ncclSuccess", 0))
    /\ rsharer' = [rsharer EXCEPT ![p].state = "freed"]
    /\ UNCHANGED << ceVars, refVars, evVars, canVars, connVars, offVars, stepVars >>

RecvProxySetupAny ==
    \E p \in 1 .. NumSharers, size \in RecvSizes, fault \in RecvFaults :
        RecvProxySetup(p, size, fault)

RecvProxyFreeAny == \E p \in 1 .. NumSharers : RecvProxyFree(p)

NextRcv == RecvProxySetupAny \/ RecvProxyFreeAny

SpecRcv == Init /\ [][NextRcv]_vars

\* The receive connections that were handed the buffer and have not called
\* Free.
RecvOutstanding == { p \in 1 .. NumSharers : rsharer[p].state = "setup" }

\* C21 as stated: the shared receive buffer is not released while a
\* connection that was handed it has not called Free, and it is released at
\* most once.
C21_RecvBufferShared ==
    /\ RecvOutstanding # {} => rhist.live
    /\ rhist.frees <= 1

\* ---------------------------------- the offsets into the staging buffer
\* An int: arithmetic wraps at IntBits bits.
IntMax == 2 ^ (IntBits - 1) - 1

ToInt(x) == ((x + IntMax + 1) % (2 ^ IntBits)) - (IntMax + 1)

\* Line 429: int stepSize = buffSizes[NCCL_PROTO_SIMPLE] / NCCL_STEPS.
StepSizeOf(cm) == cm.buffSize \div NCCL_STEPS

\* Line 525: the bytes of comm->p2pProxySendMem.
StagingBytes(cm) == ToInt(ToInt(cm.buffSize * cm.nChannels) * 3)

\* An offset that leaves the number of channels out of the graph's share.
StagingOffset_PerGraphSteps(cm, i, ch, g) ==
    ToInt(StepSizeOf(cm) * ToInt(ToInt(ToInt(i * cm.nChannels) + ch) + ToInt(g * NCCL_STEPS)))

\* Lines 431-432 (and 489): offsets[i] of the connection of channel ch in
\* graph g.
StagingOffset(cm, i, ch, g) ==
    ToInt(StepSizeOf(cm) *
          ToInt(ToInt(ToInt(i * cm.nChannels) + ch) + ToInt(ToInt(g * NCCL_STEPS) * cm.nChannels)))

\* Lines 430-433: the offsets table of one connection.
OffsetsOf(cm, ch, g) == [n \in 1 .. NCCL_STEPS |-> StagingOffset(cm, n - 1, ch, g)]

\* p2pSendConnect in staged mode fills the offsets of the connection of
\* channel ch in graph g.
ConnectOffsets(ch, g) ==
    /\ ch < comm.nChannels
    /\ offsets[<< ch, g >>] = << >>
    /\ offsets' = [offsets EXCEPT ![<< ch, g >>] = OffsetsOf(comm, ch, g)]
    /\ UNCHANGED << comm, ceVars, refVars, evVars, canVars, connVars, rcvVars, stepVars >>

ConnectOffsetsAny == \E k \in ConnKeys : ConnectOffsets(k[1], k[2])

\* The communicators of the offsets model: those whose staging buffer has a
\* size an int holds.
Comms ==
    { cm \in [buffSize : 1 .. MaxBuffSize, nChannels : 1 .. NumChannels] :
        cm.buffSize * cm.nChannels * 3 <= IntMax }

InitOffs ==
    /\ InitCE({MERGE_MEMCPY}) /\ InitRefIdle /\ InitEv /\ InitCan /\ InitConnIdle
    /\ InitRcvIdle
    /\ partial = {}
    /\ comm \in Comms
    /\ offsets = NoOffsets

NextOffs == ConnectOffsetsAny

SpecOffs == InitOffs /\ [][NextOffs]_vars

\* The bytes of step n of the connection k, once its offsets are filled.
StepRange(k, n) == offsets[k][n] .. (offsets[k][n] + StepSizeOf(comm) - 1)

Filled == { k \in ConnKeys : offsets[k] # << >> }

StepsOf == { << k, n >> : k \in Filled, n \in 1 .. NCCL_STEPS }

\* C22: the step ranges of all connected (channelId, graphId) pairs are
\* pairwise disjoint and lie inside the staging allocation of
\* buffSize * nChannels * 3 bytes.
C22_OffsetsPartition ==
    /\ \A a \in StepsOf : StepRange(a[1], a[2]) \subseteq 0 .. (StagingBytes(comm) - 1)
    /\ \A a \in StepsOf, b \in StepsOf :
          a # b => StepRange(a[1], a[2]) \cap StepRange(b[1], b[2]) = {}

\* C22 witness: two channels, a buffer size that is no multiple of the ring
\* depth, steps of two bytes, and every connection of the three graphs
\* connected.
C22_Witness ==
    /\ comm.nChannels = 2
    /\ comm.buffSize % NCCL_STEPS # 0
    /\ StepSizeOf(comm) = 2
    /\ Filled = ConnKeys
    /\ offsets[<< 1, 2 >>][NCCL_STEPS] + StepSizeOf(comm) = 2 * NCCL_STEPS * 2 * 3

\* ------------------------------------ a producer that publishes steps
\* The producing GPU publishes a tail inside a slice of connection c: d
\* steps, fewer than the op's sliceSteps.
PublishPart(c, size, d) ==
    LET cur == Max(ceTail[c], BaseOf(c))
    IN  /\ rc = "ncclSuccess"
        /\ args.state \in {"Ready", "Progress"}
        /\ c < args.nsubs
        /\ args.protocol = "SIMPLE"
        /\ d < args.sliceSteps
        /\ cur < BaseOf(c) + subs[c].nsteps
        /\ cur + d <= Max(shmTail[c], BaseOf(c)) + NCCL_STEPS
        /\ sizesFifo' = [sizesFifo EXCEPT ![c][cur % NCCL_STEPS] = size]
        /\ ceTail' = [ceTail EXCEPT ![c] = cur + d]
        /\ partial' = partial \cup {c}
        /\ pass' = NoPass
        /\ UNCHANGED << mergeMemcpy, args, subs, step, shmTail, recvFifo, events, stream,
                        memcpyDstBase, memcpyInfo, rc, opsPosted, simplePosted, psize,
                        landed, calls >>
        /\ UNCHANGED << refVars, evVars, canVars, connVars, rcvVars, offVars >>

PublishPartAny ==
    \E c \in Conns, size \in {0, StepSize}, d \in 1 .. (MaxSlice - 1) : PublishPart(c, size, d)

\* The proxy host posts a Simple op with one sub-operation of whole slices.
PostOne ==
    \E ss \in 1 .. MaxSlice, k \in 1 .. MaxStepsMulti :
        /\ simplePosted < MaxOps
        /\ simplePosted' = simplePosted + 1
        /\ PostOp(1, ss, ss, "SIMPLE", [s \in Conns |-> k * ss])

NextSteps == PostOne \/ PublishAny \/ PublishPartAny \/ ProxyProgress \/ HwAny

SpecSteps == Init /\ [][NextSteps]_vars

\* C25 as stated: whatever the producer publishes, the consumer-visible tail
\* of a connection is never ahead of the producer's tail.
C25_Original == \A c \in Conns : shmTail[c] <= ceTail[c]

\* C25: while the producer of a connection has published whole slices only,
\* the consumer-visible tail is never ahead of the producer's tail; after a
\* tail published inside a slice it is ahead by less than a slice.
C25_TailBehindProducer ==
    \A c \in Conns :
        /\ c \notin partial => shmTail[c] <= ceTail[c]
        /\ shmTail[c] < ceTail[c] + MaxSlice

\* C25 witness: slices of two steps, published whole, and the consumer has
\* been shown all the producer published while the op is in progress.
C25_Witness ==
    /\ args.state = "Progress"
    /\ args.sliceSteps = 2
    /\ \E c \in Conns :
          /\ c < args.nsubs
          /\ c \notin partial
          /\ shmTail[c] = ceTail[c]
          /\ shmTail[c] > 0
          /\ subs[c].done < subs[c].nsteps

\* --------------------------------------- consecutive ops on a connection
\* The proxy host posts a Simple op with one sub-operation of whole slices,
\* after any op that is complete.
PostSeq ==
    \E ss \in 1 .. MaxSlice, cm \in ChunkMuls, k \in 1 .. MaxStepsMulti :
        /\ simplePosted' = simplePosted + 1
        /\ PostOp(1, ss, ss * cm, "SIMPLE", [s \in Conns |-> k * ss])

NextOps == PostSeq \/ PostLL \/ PublishAny \/ ProxyProgress \/ HwAny

SpecOps == Init /\ [][NextOps]_vars

\* The progress call that takes the op from Ready to Progress.
Entered == args.state = "Ready" /\ args'.state # "Ready"

C26_Step ==
    \A c \in Conns :
        /\ shmTail'[c] >= shmTail[c]
        /\ (Entered /\ c < args.nsubs) =>
              /\ subs'[c].base = ROUNDUP(step[c], args.chunkSteps)
              /\ subs'[c].base >= step[c]
              /\ step[c] >= shmTail[c]

PassEntries == { bi \in (1 .. 2) \X (1 .. NumCells) : bi[2] <= Len(pass.info[bi[1]]) }

EntryAt(bi) == pass.info[bi[1]][bi[2]]

\* sizesFifo[buffSlot] of the entry's connection, as line 761 reads it.
EntrySize(en) == sizesFifo[en.proxyInfo][en.buffSlot]

EntryEvent(en) == << en.proxyInfo, en.buffSlot >>

\* The copies the last call issued whose byte range holds the slice of en.
Holding(en) ==
    { j \in 1 .. Len(pass.copies) :
        /\ pass.copies[j].start <= Offset(en.buffSlot, en.channelId)
        /\ Offset(en.buffSlot, en.channelId) + EntrySize(en)
             <= pass.copies[j].start + pass.copies[j].bytes }

\* Event e is recorded on its connection's stream and not yet complete.
OnStream(e) == \E k \in 1 .. Len(stream[e[1]]) : stream[e[1]][k].ev = e

\* The event of en is the one recorded for copy j, or tracks it.
RecordedFor(en, j) ==
    /\ pass.copies[j].ev = EntryEvent(en)
    /\ OnStream(EntryEvent(en))
    /\ events[EntryEvent(en)].flag = 0
    /\ events[EntryEvent(en)].tracking = Null

TrackerOf(en, j) ==
    /\ pass.copies[j].ev # EntryEvent(en)
    /\ OnStream(pass.copies[j].ev)
    /\ events[EntryEvent(en)].tracking = pass.copies[j].ev
    /\ events[EntryEvent(en)].flag = 0
    /\ \E k \in 1 .. Len(events[pass.copies[j].ev].trackers) :
          events[pass.copies[j].ev].trackers[k] = EntryEvent(en)

====
